---- MODULE Spec2Model ----
(***************************************************************************)
(* A model of pygame_dialog.py: the three-pass layout engine               *)
(* (get_initial_rect -> justify_elements -> position_rects) of             *)
(* HorizontalLayout, VerticalLayout and GridLayout, and the Dialog's       *)
(* focus / hover / click dispatch.                                         *)
(*                                                                         *)
(* An element of the tree is a record.  Python lists are 0-based, TLA+     *)
(* sequences 1-based: index i of the source is index i + 1 here.           *)
(* A method that mutates objects in place is an operator that returns      *)
(* [e |-> the element after the call, exc |-> the exception raised], the   *)
(* element holding every assignment made before the exception.             *)
(* Record constructors list their fields in the order in which the names   *)
(* first appear in the module, the order in which TLC stores them.         *)
(***************************************************************************)
EXTENDS Integers, Sequences, FiniteSets, TLC

VARIABLES
    root,       \* the element tree (layouts, widgets, their rects)
    pc,         \* how far the caller got: constructed, measured, justified, positioned
    exc,        \* the exception that ended the run, "None" while none was raised
    wstate,     \* per widget id: the status bits disabled, hovering, focused, dirty,
                \* and in_dict, the status bits that are in the widget's __dict__
    focused_widget,     \* Dialog.__focused_widget: a widget id or None
    hovered_widget,     \* Dialog.__hovered_widget: a widget id or None
    mouse_down_widget,  \* Dialog.mouse_down_widget: a widget id or None
    run_loop,           \* Dialog._run_loop
    event,      \* history: the last event dispatched
    calls,      \* history: the widget methods the last handler called, in order
    prev_focused_widget,    \* history: __focused_widget before the last event
    click_snapshot,         \* history: the focus state before a pointer-down / pointer-up pair
    Radio_groups,   \* Radio._groups: group id -> the Radios of the group, in construction order
    radios,         \* the Radio objects constructed so far: their group and selected
    last_selected,  \* history: per group, the Radio whose click() ran last, or None
    ever_selected,  \* history: the Radios whose click() ran
    textbox,    \* the Textbox: its text (a sequence of characters), its cursor_position,
                \* and whether cursor_position was assigned on the instance
    key_down_event,     \* history: the event of the key_down call of the last step, or NoEvent
    key_down_return,    \* history: what that call returned, "NotCalled" when there was none
    cursor_xs,  \* cursor_at: the x of every cursor index, cursor_xs[i + 1] for index i
    click_x,    \* cursor_at: widget_x, the x searched for
    search,     \* cursor_at: the bounds, the last probe and the return flag of the search
    object,     \* a widget object: its class, its __dict__ and the __dict__ of its label
    assignment, \* history: the attribute assigned to the widget object last, and the value
    loop,       \* _main_loop: where it is, the events of the batch not yet dispatched,
                \* and history: the calls of pygame.event.get() and of loop_end() so far
    paint       \* history: the repaint pass of the last iteration: the widgets dirty
                \* before it, the widgets painted and the calls of display.update

vars == <<root, pc, exc, wstate, focused_widget, hovered_widget, mouse_down_widget,
          run_loop, event, calls, prev_focused_widget, click_snapshot,
          Radio_groups, radios, last_selected, ever_selected,
          textbox, key_down_event, key_down_return,
          cursor_xs, click_x, search, object, assignment, loop, paint>>

layout_vars == <<root, pc>>

dialog_vars == <<wstate, focused_widget, hovered_widget, mouse_down_widget, run_loop>>

history_vars == <<event, calls, prev_focused_widget, click_snapshot>>

radio_vars == <<Radio_groups, radios, last_selected, ever_selected>>

(* the objects outside the element tree of the dialog *)
textbox_vars == <<textbox, key_down_event, key_down_return>>

search_vars == <<cursor_xs, click_x, search>>

object_vars == <<object, assignment>>

loop_vars == <<loop, paint>>

unit_vars == <<radio_vars, textbox_vars, search_vars, object_vars, loop_vars>>

----------------------------------------------------------------------------
(* Bounds of the checked inputs *)

MaxSize == 2
MaxMargin == 2
MaxChildren == 3
MaxRows == 2
MaxCols == 3

----------------------------------------------------------------------------
(* Helpers: Python built-ins *)

Max(a, b) == IF a >= b THEN a ELSE b

RECURSIVE SumSeq(_)
SumSeq(s) == IF Len(s) = 0 THEN 0 ELSE Head(s) + SumSeq(Tail(s))

RECURSIVE MaxSeq(_)
MaxSeq(s) == IF Len(s) = 1 THEN s[1] ELSE Max(Head(s), MaxSeq(Tail(s)))

Abs(a) == IF a < 0 THEN -a ELSE a

Sign(a) == IF a < 0 THEN -1 ELSE 1

RECURSIVE Pow2(_)
Pow2(e) == IF e = 0 THEN 1 ELSE 2 * Pow2(e - 1)

(* 2^k mod c *)
RECURSIVE PowMod2(_, _)
PowMod2(k, c) == IF k = 0 THEN 1 % c ELSE (2 * PowMod2(k - 1, c)) % c

(* floor(log2(n)) of an integer n >= 1 *)
RECURSIVE Log2Floor(_)
Log2Floor(n) == IF n < 2 THEN 0 ELSE 1 + Log2Floor(n \div 2)

(* the smallest m >= from with t * 2^m >= c *)
RECURSIVE ShiftsToReach(_, _, _)
ShiftsToReach(t, c, from) ==
    IF t * Pow2(from) >= c THEN from ELSE ShiftsToReach(t, c, from + 1)

(* the binary exponent of the double float(t) / float(c), t and c positive: *)
(* floor(log2(t / c))                                                       *)
float_exponent(t, c) ==
    IF t >= c THEN Log2Floor(t \div c) ELSE -ShiftsToReach(t, c, 1)

(* float(t) / float(c) is t / c rounded to 53 significant bits: with        *)
(* k = 52 - float_exponent(t, c) the quotient is M / 2^k, M the integer     *)
(* nearest to t * 2^k / c.  The value is M * c - t * 2^k, the error of the  *)
(* quotient in units of 1 / (c * 2^k): positive when rounded up, 0 when the *)
(* quotient is exact.                                                       *)
float_div_error(t, c) ==
    LET r == ((t % c) * PowMod2(52 - float_exponent(t, c), c)) % c
    IN  IF 2 * r >= c THEN c - r ELSE -r

(* round(w * q) for the double q = float(t) / float(c), all of w, t, c      *)
(* positive.  Off a tie the double product rounds as the rational w*t/c     *)
(* does.  On a tie x = K + 1/2 the product w * q is x plus w times the      *)
(* error of q, rounded to a double: it is x (and round() takes the even     *)
(* neighbour) when that error is at most half the gap between x and the     *)
(* next double on its side, else it lies on the side of the error.          *)
Round_tie(w, t, c, K) ==
    LET even == IF K % 2 = 0 THEN K ELSE K + 1
        error == float_div_error(t, c)
        exp_x == IF K = 0 THEN -1 ELSE Log2Floor(K)
        below_power_of_two == IF K = 0 /\ error < 0 THEN 1 ELSE 0
    IN  IF w * Abs(error) * Pow2(1 + below_power_of_two)
                <= c * Pow2(exp_x - float_exponent(t, c))
        THEN even
        ELSE IF error > 0 THEN K + 1 ELSE K

Round_magnitude(w, t, c) ==
    LET K == (w * t) \div c
        r == (w * t) % c
    IN  IF 2 * r < c THEN K
        ELSE IF 2 * r > c THEN K + 1
        ELSE Round_tie(w, t, c, K)

(* round(w * (float(t) / float(c))) of Python 3: the quotient and the       *)
(* product are doubles, round() takes the integer nearest to the product    *)
(* and the even one of two that are equally near; the operations are        *)
(* symmetric in the sign                                                    *)
Round(w, t, c) ==
    Sign(w) * Sign(t) * Sign(c) * Round_magnitude(Abs(w), Abs(t), Abs(c))

Rect(l, t, w, h) == [left |-> l, top |-> t, width |-> w, height |-> h]

(* Rect.collidepoint: the right and bottom edges are outside the rect *)
collidepoint(rect, pos) ==
    /\ rect.left <= pos[1] /\ pos[1] < rect.left + rect.width
    /\ rect.top <= pos[2] /\ pos[2] < rect.top + rect.height

----------------------------------------------------------------------------
(* Elements *)

LayoutKinds == {"HorizontalLayout", "VerticalLayout", "GridLayout", "Dialog"}

IsLayout(e) == e.kind \in LayoutKinds

(* isinstance(e, VerticalLayout): Dialog is a subclass of VerticalLayout *)
IsVertical(e) == e.kind \in {"VerticalLayout", "Dialog"}

(* A TextWidget after construction.  margin and padding are (top, right,   *)
(* bottom, left); rect is the class default until get_initial_rect runs;   *)
(* width and height are the options or, when unset, the size the font      *)
(* gives the text, which get_initial_rect stores in the same attributes.   *)
(* click_handler tells whether a callable is attached; the class default   *)
(* of Button is None.                                                      *)
TextWidget(cls, id, width, height, margin, padding) ==
    [width |-> width, height |-> height, rect |-> Rect(0, 0, 0, 0),
     kind |-> "Widget", cls |-> cls, id |-> id, font |-> "name",
     margin_top |-> margin[1], margin_right |-> margin[2],
     margin_bottom |-> margin[3], margin_left |-> margin[4],
     padding_top |-> padding[1], padding_right |-> padding[2],
     padding_bottom |-> padding[3], padding_left |-> padding[4],
     click_handler |-> FALSE]

(* Button(text, click_handler=f, ...): the option click_handler is stored  *)
WithClickHandler(widget) == [widget EXCEPT !.click_handler = TRUE]

LinearLayout(kind, elements) ==
    [rect |-> Rect(0, 0, 0, 0), kind |-> kind, elements |-> elements,
     internal_margins |-> 0]

HorizontalLayout(elements) == LinearLayout("HorizontalLayout", elements)

VerticalLayout(elements) == LinearLayout("VerticalLayout", elements)

GridLayout(rows) ==
    [rect |-> Rect(0, 0, 0, 0), kind |-> "GridLayout", rows |-> rows,
     row_count |-> 0, column_count |-> 0,
     column_widths |-> <<>>, row_heights |-> <<>>,
     column_margins |-> <<>>, row_margins |-> <<>>]

----------------------------------------------------------------------------
(* margin_top / margin_right / margin_bottom / margin_left of an element:  *)
(* Widget.__getattr__ and the __getattr__ of the three layouts.            *)

RECURSIVE getattr_margin(_, _)
getattr_margin(e, varname) ==
    IF e.kind = "Widget" THEN
        CASE varname = "margin_top" -> e.margin_top
          [] varname = "margin_right" -> e.margin_right
          [] varname = "margin_bottom" -> e.margin_bottom
          [] varname = "margin_left" -> e.margin_left
    ELSE IF e.kind = "GridLayout" THEN
        CASE varname = "margin_top" -> e.row_margins[1]
          [] varname = "margin_right" -> e.column_margins[Len(e.column_margins)]
          [] varname = "margin_bottom" -> e.row_margins[Len(e.row_margins)]
          [] varname = "margin_left" -> e.column_margins[1]
    ELSE IF e.kind = "HorizontalLayout" THEN
        CASE varname = "margin_top" ->
                MaxSeq([i \in 1..Len(e.elements) |-> getattr_margin(e.elements[i], varname)])
          [] varname = "margin_right" -> getattr_margin(e.elements[Len(e.elements)], varname)
          [] varname = "margin_bottom" ->
                MaxSeq([i \in 1..Len(e.elements) |-> getattr_margin(e.elements[i], varname)])
          [] varname = "margin_left" -> getattr_margin(e.elements[1], varname)
    ELSE
        CASE varname = "margin_top" -> getattr_margin(e.elements[1], varname)
          [] varname = "margin_right" ->
                MaxSeq([i \in 1..Len(e.elements) |-> getattr_margin(e.elements[i], varname)])
          [] varname = "margin_bottom" -> getattr_margin(e.elements[Len(e.elements)], varname)
          [] varname = "margin_left" ->
                MaxSeq([i \in 1..Len(e.elements) |-> getattr_margin(e.elements[i], varname)])

margin_top(e) == getattr_margin(e, "margin_top")
margin_right(e) == getattr_margin(e, "margin_right")
margin_bottom(e) == getattr_margin(e, "margin_bottom")
margin_left(e) == getattr_margin(e, "margin_left")

----------------------------------------------------------------------------
(* Pass 1: get_initial_rect *)

Done(e) == [exc |-> "None", e |-> e]
Raise(e, name) == [exc |-> name, e |-> e]

(* TextWidget.get_initial_rect.  SysFont replaces self.font by a Font       *)
(* object; given a Font object instead of a name it raises.                 *)
TextWidget_get_initial_rect(self) ==
    IF self.font # "name" THEN Raise(self, "TypeError")
    ELSE Done([self EXCEPT
            !.font = "Font",
            !.rect = Rect(0, 0,
                self.padding_left + self.width + self.padding_right,
                self.padding_top + self.height + self.padding_bottom)])

RECURSIVE get_initial_rect(_)

(* HorizontalLayout.get_initial_rect, lines 358-360: r is the result of    *)
(* measuring the first child                                               *)
HorizontalLayout_measure_first(self, r) ==
    IF r.exc # "None" THEN Raise([self EXCEPT !.elements[1] = r.e], r.exc)
    ELSE Done([self EXCEPT
            !.elements[1] = r.e,
            !.rect = Rect(0, 0, r.e.rect.width, r.e.rect.height),
            !.internal_margins = 0])

(* the body of "for next_elem in self.elements[1:]" for the child at i: r  *)
(* is the result of measuring it; prev_elem stays self.elements[0]         *)
HorizontalLayout_measure_next(self, i, r, prev_elem) ==
    IF r.exc # "None" THEN Raise([self EXCEPT !.elements[i] = r.e], r.exc)
    ELSE Done([self EXCEPT
            !.elements[i] = r.e,
            !.rect.height = Max(@, r.e.rect.height),
            !.rect.width = @ + Max(margin_right(prev_elem), margin_left(r.e))
                             + r.e.rect.width,
            !.internal_margins = @ + Max(margin_right(prev_elem), margin_left(r.e))])

(* the loop "for next_elem in self.elements[1:]" from the child at i on;   *)
(* res is the layout so far, or the exception that ended the measure       *)
RECURSIVE HorizontalLayout_measure_loop(_, _)
HorizontalLayout_measure_loop(res, i) ==
    IF res.exc # "None" \/ i > Len(res.e.elements) THEN res
    ELSE HorizontalLayout_measure_loop(
            HorizontalLayout_measure_next(res.e, i,
                get_initial_rect(res.e.elements[i]), res.e.elements[1]),
            i + 1)

(* HorizontalLayout.get_initial_rect returning the unmeasured rect of a    *)
(* layout without children instead of raising                              *)
HorizontalLayout_get_initial_rect_accepts_empty(self) ==
    IF Len(self.elements) = 0 THEN Done(self)
    ELSE HorizontalLayout_measure_loop(
            HorizontalLayout_measure_first(self, get_initial_rect(self.elements[1])), 2)

(* HorizontalLayout.get_initial_rect *)
HorizontalLayout_get_initial_rect(self) ==
    IF Len(self.elements) = 0 THEN Raise(self, "Exception")
    ELSE HorizontalLayout_measure_loop(
            HorizontalLayout_measure_first(self, get_initial_rect(self.elements[1])), 2)

(* VerticalLayout.get_initial_rect, lines 417-419 *)
VerticalLayout_measure_first(self, r) ==
    IF r.exc # "None" THEN Raise([self EXCEPT !.elements[1] = r.e], r.exc)
    ELSE Done([self EXCEPT
            !.elements[1] = r.e,
            !.rect = Rect(0, 0, r.e.rect.width, r.e.rect.height),
            !.internal_margins = 0])

(* the body of the loop of VerticalLayout.get_initial_rect; prev_elem      *)
(* stays self.elements[0]                                                  *)
VerticalLayout_measure_next(self, i, r, prev_elem) ==
    IF r.exc # "None" THEN Raise([self EXCEPT !.elements[i] = r.e], r.exc)
    ELSE Done([self EXCEPT
            !.elements[i] = r.e,
            !.rect.width = Max(@, r.e.rect.width),
            !.rect.height = @ + Max(margin_bottom(prev_elem), margin_top(r.e))
                              + r.e.rect.height,
            !.internal_margins = @ + Max(margin_bottom(prev_elem), margin_top(r.e))])

RECURSIVE VerticalLayout_measure_loop(_, _)
VerticalLayout_measure_loop(res, i) ==
    IF res.exc # "None" \/ i > Len(res.e.elements) THEN res
    ELSE VerticalLayout_measure_loop(
            VerticalLayout_measure_next(res.e, i,
                get_initial_rect(res.e.elements[i]), res.e.elements[1]),
            i + 1)

VerticalLayout_get_initial_rect(self) ==
    IF Len(self.elements) = 0 THEN Raise(self, "Exception")
    ELSE VerticalLayout_measure_loop(
            VerticalLayout_measure_first(self, get_initial_rect(self.elements[1])), 2)

(* Dialog.get_initial_rect after the VerticalLayout measure: the rect is   *)
(* moved to (margin_left, margin_top)                                      *)
Dialog_move_rect(r) ==
    IF r.exc # "None" THEN r
    ELSE Done([r.e EXCEPT !.rect.left = margin_left(r.e),
                          !.rect.top = margin_top(r.e)])

Dialog_get_initial_rect(self) == Dialog_move_rect(VerticalLayout_get_initial_rect(self))

(* GridLayout.get_initial_rect, lines 184-185 *)
GridLayout_cell_size(self, r, c, cell) ==
    [self EXCEPT !.column_widths[c] = Max(@, cell.rect.width),
                 !.row_heights[r] = Max(@, cell.rect.height)]

(* lines 186-191: the margin above row r *)
GridLayout_cell_row_margin(self, r, c, cell) ==
    IF r = 1
    THEN [self EXCEPT !.row_margins[1] = Max(@, margin_top(cell))]
    ELSE IF c <= Len(self.rows[r - 1])
    THEN [self EXCEPT !.row_margins[r] =
            Max(Max(@, margin_bottom(self.rows[r - 1][c])), margin_top(cell))]
    ELSE self

(* lines 192-198: the margin to the left of column c *)
GridLayout_cell_column_margin(self, r, c, cell) ==
    [self EXCEPT !.column_margins[c] =
        Max(@, IF c = 1 THEN margin_left(cell)
               ELSE Max(margin_right(self.rows[r][c - 1]), margin_left(cell)))]

(* the body of "for c in range(column_count)" for the cell at r, c: res is *)
(* the result of measuring it                                              *)
GridLayout_measure_cell(self, r, c, res) ==
    IF res.exc # "None" THEN Raise([self EXCEPT !.rows[r][c] = res.e], res.exc)
    ELSE Done(GridLayout_cell_column_margin(
                GridLayout_cell_row_margin(
                    GridLayout_cell_size([self EXCEPT !.rows[r][c] = res.e], r, c, res.e),
                    r, c, res.e),
                r, c, res.e))

(* "for c in range(self.column_count)" for row r, from column c on *)
RECURSIVE GridLayout_measure_cells(_, _, _)
GridLayout_measure_cells(res, r, c) ==
    IF res.exc # "None" \/ c > res.e.column_count THEN res
    ELSE IF c - 1 = Len(res.e.rows[r]) THEN GridLayout_measure_cells(res, r, c + 1)
    ELSE IF c > Len(res.e.rows[r]) THEN Raise(res.e, "IndexError")
    ELSE GridLayout_measure_cells(
            GridLayout_measure_cell(res.e, r, c, get_initial_rect(res.e.rows[r][c])),
            r, c + 1)

(* lines 199-203: the margin to the right of the last column *)
GridLayout_row_end(res, r) ==
    IF res.exc # "None" THEN res
    ELSE IF Len(res.e.rows[r]) # res.e.column_count THEN res
    ELSE IF res.e.column_count = 0 THEN Raise(res.e, "IndexError")
    ELSE Done([res.e EXCEPT !.column_margins[res.e.column_count + 1] =
                Max(@, margin_right(res.e.rows[r][res.e.column_count]))])

(* "for r in range(self.row_count)", from row r on *)
RECURSIVE GridLayout_measure_rows(_, _)
GridLayout_measure_rows(res, r) ==
    IF res.exc # "None" \/ r > res.e.row_count THEN res
    ELSE GridLayout_measure_rows(
            GridLayout_row_end(GridLayout_measure_cells(res, r, 1), r), r + 1)

(* lines 170-177: the counts and the zeroed lists *)
GridLayout_measure_begin(self, rc, cc) ==
    [self EXCEPT
        !.row_count = rc,
        !.column_count = cc,
        !.rect = Rect(0, 0, 0, 0),
        !.column_widths = [c \in 1..cc |-> 0],
        !.row_heights = [r \in 1..rc |-> 0],
        !.column_margins = [c \in 1..(cc + 1) |-> 0],
        !.row_margins = [r \in 1..(rc + 1) |-> 0]]

(* lines 206-207 *)
GridLayout_measure_size(self) ==
    [self EXCEPT
        !.rect.width = SumSeq(self.column_widths)
                        + SumSeq(SubSeq(self.column_margins, 2, self.column_count)),
        !.rect.height = SumSeq(self.row_heights)
                        + SumSeq(SubSeq(self.row_margins, 2, self.row_count))]

(* lines 205-208: the margin below the last row, then the size *)
GridLayout_measure_end(res) ==
    IF res.exc # "None" THEN res
    ELSE IF res.e.row_count = 0 THEN Raise(res.e, "IndexError")
    ELSE IF Len(res.e.rows[res.e.row_count]) = 0 THEN Raise(res.e, "ValueError")
    ELSE Done(GridLayout_measure_size(
            [res.e EXCEPT !.row_margins[res.e.row_count + 1] =
                MaxSeq([c \in 1..Len(res.e.rows[res.e.row_count]) |->
                            margin_bottom(res.e.rows[res.e.row_count][c])])]))

GridLayout_get_initial_rect(self) ==
    GridLayout_measure_end(
        GridLayout_measure_rows(
            Done(GridLayout_measure_begin(self, Len(self.rows),
                    IF Len(self.rows) = 0 THEN 0
                    ELSE MaxSeq([r \in 1..Len(self.rows) |-> Len(self.rows[r])]))),
            1))

get_initial_rect(e) ==
    CASE e.kind = "Widget" -> TextWidget_get_initial_rect(e)
      [] e.kind = "HorizontalLayout" -> HorizontalLayout_get_initial_rect(e)
      [] e.kind = "VerticalLayout" -> VerticalLayout_get_initial_rect(e)
      [] e.kind = "GridLayout" -> GridLayout_get_initial_rect(e)
      [] e.kind = "Dialog" -> Dialog_get_initial_rect(e)

----------------------------------------------------------------------------
(* Pass 2: justify_elements *)

RECURSIVE justify_elements(_)

(* the loop "for element in self.elements" of                              *)
(* HorizontalLayout.justify_elements; the grow factor is target / content  *)
RECURSIVE HorizontalLayout_justify_loop(_, _, _, _)
HorizontalLayout_justify_loop(self, i, target, content) ==
    IF i > Len(self.elements) THEN Done(self)
    ELSE
        LET element == [self.elements[i] EXCEPT
                            !.rect.height = self.rect.height,
                            !.rect.width = Round(@, target, content)]
            res == IF IsLayout(element) THEN justify_elements(element) ELSE Done(element)
            s1 == [self EXCEPT !.elements[i] = res.e]
        IN  IF res.exc # "None" THEN Raise(s1, res.exc)
            ELSE HorizontalLayout_justify_loop(s1, i + 1, target, content)

HorizontalLayout_justify_elements(self) ==
    LET content_width == SumSeq([i \in 1..Len(self.elements) |-> self.elements[i].rect.width])
        target_content_width == self.rect.width - self.internal_margins
    IN  IF content_width = 0 THEN Raise(self, "ZeroDivisionError")
        ELSE HorizontalLayout_justify_loop(self, 1, target_content_width, content_width)

RECURSIVE VerticalLayout_justify_loop(_, _, _, _)
VerticalLayout_justify_loop(self, i, target, content) ==
    IF i > Len(self.elements) THEN Done(self)
    ELSE
        LET element == [self.elements[i] EXCEPT
                            !.rect.width = self.rect.width,
                            !.rect.height = Round(@, target, content)]
            res == IF IsLayout(element) THEN justify_elements(element) ELSE Done(element)
            s1 == [self EXCEPT !.elements[i] = res.e]
        IN  IF res.exc # "None" THEN Raise(s1, res.exc)
            ELSE VerticalLayout_justify_loop(s1, i + 1, target, content)

VerticalLayout_justify_elements(self) ==
    LET content_height == SumSeq([i \in 1..Len(self.elements) |-> self.elements[i].rect.height])
        target_content_height == self.rect.height - self.internal_margins
    IN  IF content_height = 0 THEN Raise(self, "ZeroDivisionError")
        ELSE VerticalLayout_justify_loop(self, 1, target_content_height, content_height)

(* GridLayout.justify_elements, cells in row-major order from (r, c) on *)
RECURSIVE GridLayout_justify_loop(_, _, _)
GridLayout_justify_loop(self, r, c) ==
    IF r > self.row_count THEN Done(self)
    ELSE IF c > self.column_count THEN GridLayout_justify_loop(self, r + 1, 1)
    ELSE IF c - 1 = Len(self.rows[r]) THEN GridLayout_justify_loop(self, r, c + 1)
    ELSE IF c > Len(self.rows[r]) THEN Raise(self, "IndexError")
    ELSE
        LET cell == [self.rows[r][c] EXCEPT
                        !.rect.width = self.column_widths[c],
                        !.rect.height = self.row_heights[r]]
            res == IF IsLayout(cell) THEN justify_elements(cell) ELSE Done(cell)
            s1 == [self EXCEPT !.rows[r][c] = res.e]
        IN  IF res.exc # "None" THEN Raise(s1, res.exc)
            ELSE GridLayout_justify_loop(s1, r, c + 1)

GridLayout_justify_elements(self) == GridLayout_justify_loop(self, 1, 1)

justify_elements(e) ==
    CASE e.kind = "HorizontalLayout" -> HorizontalLayout_justify_elements(e)
      [] e.kind = "VerticalLayout" -> VerticalLayout_justify_elements(e)
      [] e.kind = "Dialog" -> VerticalLayout_justify_elements(e)
      [] e.kind = "GridLayout" -> GridLayout_justify_elements(e)

----------------------------------------------------------------------------
(* Pass 3: position_rects *)

(* HorizontalLayout.position_next_element adding the two facing margins *)
HorizontalLayout_position_next_element_sum(prev_element, next_elem) ==
    [next_elem EXCEPT
        !.rect.top = prev_element.rect.top,
        !.rect.left = prev_element.rect.left + prev_element.rect.width
                        + margin_right(prev_element) + margin_left(next_elem)]

(* HorizontalLayout.position_next_element *)
HorizontalLayout_position_next_element(prev_element, next_elem) ==
    [next_elem EXCEPT
        !.rect.top = prev_element.rect.top,
        !.rect.left = prev_element.rect.left + prev_element.rect.width
                        + Max(margin_right(prev_element), margin_left(next_elem))]

VerticalLayout_position_next_element(prev_element, next_elem) ==
    [next_elem EXCEPT
        !.rect.top = prev_element.rect.top + prev_element.rect.height
                        + Max(margin_bottom(prev_element), margin_top(next_elem)),
        !.rect.left = prev_element.rect.left]

position_next_element(self, prev_element, next_elem) ==
    IF IsVertical(self)
    THEN VerticalLayout_position_next_element(prev_element, next_elem)
    ELSE HorizontalLayout_position_next_element(prev_element, next_elem)

RECURSIVE position_rects(_)

(* "for next_elem in self.elements[1:]" of LinearLayout.position_rects *)
RECURSIVE LinearLayout_position_loop(_, _)
LinearLayout_position_loop(self, i) ==
    IF i > Len(self.elements) THEN self
    ELSE LinearLayout_position_loop(
            [self EXCEPT !.elements[i] =
                position_next_element(self, self.elements[i - 1], self.elements[i])],
            i + 1)

(* "for element in self.elements: if isinstance(element, Layout): ..." *)
RECURSIVE LinearLayout_position_children(_, _)
LinearLayout_position_children(self, i) ==
    IF i > Len(self.elements) THEN Done(self)
    ELSE
        LET res == IF IsLayout(self.elements[i])
                   THEN position_rects(self.elements[i])
                   ELSE Done(self.elements[i])
            s1 == [self EXCEPT !.elements[i] = res.e]
        IN  IF res.exc # "None" THEN Raise(s1, res.exc)
            ELSE LinearLayout_position_children(s1, i + 1)

LinearLayout_position_rects(self) ==
    IF Len(self.elements) = 0 THEN Raise(self, "IndexError")
    ELSE
        LET s1 == [self EXCEPT !.elements[1].rect.top = self.rect.top,
                               !.elements[1].rect.left = self.rect.left]
        IN  LinearLayout_position_children(LinearLayout_position_loop(s1, 2), 1)

(* tops[r] and lefts[c] of GridLayout.position_rects *)
RECURSIVE GridLayout_tops(_, _)
GridLayout_tops(self, r) ==
    IF r = 1 THEN self.rect.top
    ELSE GridLayout_tops(self, r - 1) + self.row_heights[r - 1] + self.row_margins[r]

RECURSIVE GridLayout_lefts(_, _)
GridLayout_lefts(self, c) ==
    IF c = 1 THEN self.rect.left
    ELSE GridLayout_lefts(self, c - 1) + self.column_widths[c - 1] + self.column_margins[c]

(* the double loop of GridLayout.position_rects, from (r, c) on; the guard *)
(* is "c <= len(self.rows[r])" with the source's 0-based c                 *)
RECURSIVE GridLayout_position_loop(_, _, _)
GridLayout_position_loop(self, r, c) ==
    IF r > self.row_count THEN Done(self)
    ELSE IF c > self.column_count THEN GridLayout_position_loop(self, r + 1, 1)
    ELSE IF c - 1 <= Len(self.rows[r])
    THEN IF c > Len(self.rows[r]) THEN Raise(self, "IndexError")
         ELSE
            LET cell == [self.rows[r][c] EXCEPT
                            !.rect.top = GridLayout_tops(self, r),
                            !.rect.left = GridLayout_lefts(self, c)]
                res == IF IsLayout(cell) THEN position_rects(cell) ELSE Done(cell)
                s1 == [self EXCEPT !.rows[r][c] = res.e]
            IN  IF res.exc # "None" THEN Raise(s1, res.exc)
                ELSE GridLayout_position_loop(s1, r, c + 1)
    ELSE GridLayout_position_loop(self, r, c + 1)

GridLayout_position_rects(self) == GridLayout_position_loop(self, 1, 1)

position_rects(e) ==
    IF e.kind = "GridLayout" THEN GridLayout_position_rects(e)
    ELSE LinearLayout_position_rects(e)

----------------------------------------------------------------------------
(* The three passes as steps of the caller (Dialog.initialize_display, or  *)
(* the dump of the module's main program): measure, grow, position.        *)

(* the caller takes the next pass unless the pass raised *)
Advance(res, next_pc) ==
    /\ root' = res.e
    /\ exc' = res.exc
    /\ pc' = IF res.exc = "None" THEN next_pc ELSE pc

GetInitialRect ==
    /\ pc = "constructed" /\ exc = "None"
    /\ Advance(get_initial_rect(root), "measured")
    /\ UNCHANGED <<dialog_vars, history_vars, unit_vars>>

JustifyElements ==
    /\ pc = "measured" /\ exc = "None"
    /\ Advance(justify_elements(root), "justified")
    /\ UNCHANGED <<dialog_vars, history_vars, unit_vars>>

PositionRects ==
    /\ pc = "justified" /\ exc = "None"
    /\ Advance(position_rects(root), "positioned")
    /\ UNCHANGED <<dialog_vars, history_vars, unit_vars>>

(* Dialog.initialize_display: the three passes in order, on the tree as    *)
(* the previous passes left it; an exception ends the sequence             *)
Dialog_initialize_display_justify(res) ==
    IF res.exc # "None" THEN res ELSE justify_elements(res.e)

Dialog_initialize_display_position(res) ==
    IF res.exc # "None" THEN res ELSE position_rects(res.e)

Dialog_initialize_display(self) ==
    Dialog_initialize_display_position(
        Dialog_initialize_display_justify(get_initial_rect(self)))

(* the three passes run a second time on a tree that was laid out and not  *)
(* changed since (a dialog shown again)                                    *)
Relayout ==
    /\ pc = "positioned" /\ exc = "None"
    /\ Advance(Dialog_initialize_display(root), "relaid")
    /\ UNCHANGED <<dialog_vars, history_vars, unit_vars>>

----------------------------------------------------------------------------
(* The Dialog: widgets, hit-testing, focus order *)

None == 0

NO_POSITION == <<-1, -1>>

WidgetIds == {1, 2, 3}

RECURSIVE widgets(_)

(* concatenation of the widgets of a list of elements, left to right *)
RECURSIVE widgets_of_list(_)
widgets_of_list(elements) ==
    IF Len(elements) = 0 THEN <<>>
    ELSE (IF IsLayout(Head(elements)) THEN widgets(Head(elements)) ELSE <<Head(elements)>>)
            \o widgets_of_list(Tail(elements))

RECURSIVE widgets_of_rows(_)
widgets_of_rows(rows) ==
    IF Len(rows) = 0 THEN <<>>
    ELSE widgets_of_list(Head(rows)) \o widgets_of_rows(Tail(rows))

(* GridLayout.widgets / LinearLayout.widgets: the widgets in depth-first order *)
widgets(self) ==
    IF self.kind = "GridLayout" THEN widgets_of_rows(self.rows)
    ELSE widgets_of_list(self.elements)

RECURSIVE widget_at(_, _)

(* "for element in ...: if element.rect.collidepoint(pos): return ..." *)
RECURSIVE widget_at_list(_, _)
widget_at_list(elements, pos) ==
    IF Len(elements) = 0 THEN None
    ELSE IF collidepoint(Head(elements).rect, pos)
    THEN IF IsLayout(Head(elements)) THEN widget_at(Head(elements), pos)
         ELSE Head(elements).id
    ELSE widget_at_list(Tail(elements), pos)

RECURSIVE Flatten(_)
Flatten(rows) == IF Len(rows) = 0 THEN <<>> ELSE Head(rows) \o Flatten(Tail(rows))

(* GridLayout.widget_at / LinearLayout.widget_at *)
widget_at(self, pos) ==
    IF self.kind = "GridLayout" THEN widget_at_list(Flatten(self.rows), pos)
    ELSE widget_at_list(self.elements, pos)

IsFocusable(elem) == elem.cls # "Label" /\ ~wstate[elem.id].disabled

(* Layout.focusable_widgets, as the sequence of widget ids the filter yields *)
focusable_widgets(self) ==
    LET f == SelectSeq(widgets(self), IsFocusable)
    IN  [i \in 1..Len(f) |-> f[i].id]

(* Layout.focusable_widget_before *)
focusable_widget_before(self, widget) ==
    LET f == focusable_widgets(self)
    IN  IF \E i \in 1..Len(f) : f[i] = widget
        THEN LET i == CHOOSE j \in 1..Len(f) : f[j] = widget
             IN  IF i = 1 THEN None ELSE f[i - 1]
        ELSE None

(* Layout.focusable_widget_after returning the widget found instead of *)
(* the one that follows it                                              *)
focusable_widget_after_same(self, widget) ==
    LET f == focusable_widgets(self)
    IN  IF \E i \in 1..Len(f) : f[i] = widget
        THEN LET i == CHOOSE j \in 1..Len(f) : f[j] = widget
             IN  IF i = Len(f) THEN None ELSE f[i]
        ELSE None

(* Layout.focusable_widget_after *)
focusable_widget_after(self, widget) ==
    LET f == focusable_widgets(self)
    IN  IF \E i \in 1..Len(f) : f[i] = widget
        THEN LET i == CHOOSE j \in 1..Len(f) : f[j] = widget
             IN  IF i = Len(f) THEN None ELSE f[i + 1]
        ELSE None

(* Layout.first_focusable_widget: falls off the loop and returns None when *)
(* nothing is focusable                                                    *)
first_focusable_widget(self) ==
    LET f == focusable_widgets(self)
    IN  IF Len(f) = 0 THEN [exc |-> "None", value |-> None]
        ELSE [exc |-> "None", value |-> f[1]]

(* Layout.last_focusable_widget: "return e" with e unbound when nothing is *)
(* focusable                                                               *)
last_focusable_widget(self) ==
    LET f == focusable_widgets(self)
    IN  IF Len(f) = 0 THEN [exc |-> "UnboundLocalError", value |-> None]
        ELSE [exc |-> "None", value |-> f[Len(f)]]

(* Widget.__setattr__ for a status bit: store the value, and set dirty     *)
(* when the bit is not in __dict__ or the value differs from the one       *)
(* stored.  in_dict is the set of the status bits that are in __dict__; a  *)
(* bit outside it reads the class default False.                           *)
Widget_setattr(ws, w, varname, value) ==
    LET dict == ws[w]
        dirty == IF varname # "dirty" /\ (varname \notin dict.in_dict \/ dict[varname] # value)
                 THEN TRUE ELSE dict.dirty
    IN  [ws EXCEPT ![w] = [[[dict EXCEPT !.dirty = dirty] EXCEPT ![varname] = value]
                                EXCEPT !.in_dict = @ \cup {varname, "dirty"}]]

Call(method, w, pos) == [pos |-> pos, widget |-> w, method |-> method]

KeyEvent(key, mod) == [pos |-> NO_POSITION, key |-> key, mod |-> mod, type |-> "KEYDOWN"]

MouseEvent(type, pos) == [pos |-> pos, key |-> "", mod |-> {}, type |-> type]

OtherEvent(type) == [pos |-> NO_POSITION, key |-> "", mod |-> {}, type |-> type]

NoSnapshot == [focused_widget |-> None, target |-> None, phase |-> "none", focused |-> {}]

FocusedSet(ws) == {w \in WidgetIds : ws[w].focused}

HoveringSet(ws) == {w \in WidgetIds : ws[w].hovering}

(* the class of the widget with the given id *)
ClsOf(w) ==
    LET ws == widgets(root)
    IN  ws[CHOOSE i \in 1..Len(ws) : ws[i].id = w].cls

(* callable(widget.click_handler) for the widget with the given id *)
HasClickHandler(w) ==
    LET ws == widgets(root)
    IN  ws[CHOOSE i \in 1..Len(ws) : ws[i].id = w].click_handler

(* widget.click(pos): Button.click calls the click handler when one is     *)
(* attached; Widget.click, which a Label inherits, does nothing            *)
click(w, pos) ==
    IF ClsOf(w) = "Button" /\ HasClickHandler(w)
    THEN <<Call("click", w, pos), Call("click_handler", w, NO_POSITION)>>
    ELSE <<Call("click", w, pos)>>

----------------------------------------------------------------------------
(* The event handlers of the Dialog.  Each returns the Dialog after the    *)
(* handler: the status bits, the focused / hovered / mouse-down widget,    *)
(* the run flag, the calls made and the exception raised.                  *)

Handled(ws, fw, hw, mdw, run, cs, e) ==
    [exc |-> e, wstate |-> ws, focused_widget |-> fw, hovered_widget |-> hw,
     mouse_down_widget |-> mdw, run_loop |-> run, calls |-> cs]

Unhandled ==
    Handled(wstate, focused_widget, hovered_widget, mouse_down_widget, run_loop, <<>>, "None")

(* Dialog.close, reached through Dialog._quit *)
Dialog_quit ==
    [Unhandled EXCEPT !.run_loop = FALSE, !.calls = <<Call("close", None, NO_POSITION)>>]

(* the K_TAB branch of Dialog._keydown *)
Dialog_keydown_tab(shift) ==
    IF focused_widget = None
    THEN LET r == IF shift THEN last_focusable_widget(root) ELSE first_focusable_widget(root)
         IN  IF r.exc # "None" THEN [Unhandled EXCEPT !.exc = r.exc]
             ELSE IF r.value = None
             THEN [Unhandled EXCEPT !.focused_widget = None, !.exc = "AttributeError"]
             ELSE [Unhandled EXCEPT
                    !.focused_widget = r.value,
                    !.wstate = Widget_setattr(wstate, r.value, "focused", TRUE)]
    ELSE LET n == IF shift THEN focusable_widget_before(root, focused_widget)
                  ELSE focusable_widget_after(root, focused_widget)
             r == IF n # None THEN [exc |-> "None", value |-> n]
                  ELSE IF shift THEN last_focusable_widget(root)
                  ELSE first_focusable_widget(root)
             neighbor == r.value
             ws1 == Widget_setattr(wstate, focused_widget, "focused", FALSE)
         IN  IF r.exc # "None" THEN [Unhandled EXCEPT !.exc = r.exc]
             ELSE IF neighbor = None
             THEN [Unhandled EXCEPT !.wstate = ws1, !.focused_widget = None,
                                    !.exc = "AttributeError"]
             ELSE [Unhandled EXCEPT
                    !.focused_widget = neighbor,
                    !.wstate = Widget_setattr(ws1, neighbor, "focused", TRUE)]

(* Dialog._keydown *)
Dialog_keydown(ev) ==
    IF "KMOD_ALT" \in ev.mod THEN Unhandled
    ELSE IF ev.key = "K_ESCAPE" THEN Dialog_quit
    ELSE IF ev.key \in {"K_RETURN", "K_SPACE"} /\ focused_widget # None
    THEN [Unhandled EXCEPT !.calls = click(focused_widget, NO_POSITION)]
    ELSE IF ev.key = "K_TAB" THEN Dialog_keydown_tab("KMOD_SHIFT" \in ev.mod)
    ELSE IF focused_widget # None /\ ~wstate[focused_widget].disabled
    THEN [Unhandled EXCEPT !.calls = <<Call("key_down", focused_widget, NO_POSITION)>>]
    ELSE Unhandled

(* Dialog._mousemotion leaving the previous target's hovering flag set *)
Dialog_mousemotion_keep_hovering(ev) ==
    LET widget == widget_at(root, ev.pos)
        c1 == IF hovered_widget # None
              THEN <<Call("mouse_out", hovered_widget, NO_POSITION)>> ELSE <<>>
        ws2 == IF widget # None THEN Widget_setattr(wstate, widget, "hovering", TRUE) ELSE wstate
        c2 == IF widget # None THEN <<Call("mouse_in", widget, NO_POSITION)>> ELSE <<>>
    IN  IF widget # hovered_widget
        THEN [Unhandled EXCEPT !.wstate = ws2, !.calls = c1 \o c2, !.hovered_widget = widget]
        ELSE [Unhandled EXCEPT !.hovered_widget = widget]

(* Dialog._mousemotion *)
Dialog_mousemotion(ev) ==
    LET widget == widget_at(root, ev.pos)
        ws1 == IF hovered_widget # None
               THEN Widget_setattr(wstate, hovered_widget, "hovering", FALSE)
               ELSE wstate
        c1 == IF hovered_widget # None
              THEN <<Call("mouse_out", hovered_widget, NO_POSITION)>> ELSE <<>>
        ws2 == IF widget # None THEN Widget_setattr(ws1, widget, "hovering", TRUE) ELSE ws1
        c2 == IF widget # None THEN <<Call("mouse_in", widget, NO_POSITION)>> ELSE <<>>
    IN  IF widget # hovered_widget
        THEN [Unhandled EXCEPT !.wstate = ws2, !.calls = c1 \o c2, !.hovered_widget = widget]
        ELSE [Unhandled EXCEPT !.hovered_widget = widget]

(* Dialog._mousebuttondown *)
Dialog_mousebuttondown(ev) ==
    LET widget == widget_at(root, ev.pos)
    IN  IF focused_widget # None /\ focused_widget # widget
        THEN [Unhandled EXCEPT
                !.mouse_down_widget = widget,
                !.wstate = Widget_setattr(wstate, focused_widget, "focused", FALSE)]
        ELSE [Unhandled EXCEPT !.mouse_down_widget = widget]

(* Dialog._mousebuttonup without the comparison with the mouse-down target *)
Dialog_mousebuttonup_any_target(ev) ==
    LET widget == widget_at(root, ev.pos)
    IN  IF widget # None /\ ~wstate[widget].disabled
        THEN [Unhandled EXCEPT
                !.wstate = Widget_setattr(wstate, widget, "focused", TRUE),
                !.calls = click(widget, ev.pos),
                !.focused_widget = widget]
        ELSE Unhandled

(* Dialog._mousebuttonup *)
Dialog_mousebuttonup(ev) ==
    LET widget == widget_at(root, ev.pos)
    IN  IF widget # None /\ widget = mouse_down_widget /\ ~wstate[widget].disabled
        THEN [Unhandled EXCEPT
                !.wstate = Widget_setattr(wstate, widget, "focused", TRUE),
                !.calls = click(widget, ev.pos),
                !.focused_widget = widget]
        ELSE Unhandled

(* the event types that the handler table of Dialog._main_loop maps to     *)
(* _noop                                                                   *)
NoopTypes ==
    {"ACTIVEEVENT", "KEYUP", "JOYAXISMOTION", "JOYBALLMOTION", "JOYHATMOTION",
     "JOYBUTTONDOWN", "JOYBUTTONUP", "VIDEORESIZE", "VIDEOEXPOSE"}

(* the handler table of Dialog._main_loop; a type that is not a key of the *)
(* table makes event_handlers[event.type] raise KeyError                   *)
event_handlers(ev) ==
    CASE ev.type = "KEYDOWN" -> Dialog_keydown(ev)
      [] ev.type = "MOUSEMOTION" -> Dialog_mousemotion(ev)
      [] ev.type = "MOUSEBUTTONDOWN" -> Dialog_mousebuttondown(ev)
      [] ev.type = "MOUSEBUTTONUP" -> Dialog_mousebuttonup(ev)
      [] ev.type = "QUIT" -> Dialog_quit
      [] ev.type \in NoopTypes -> Unhandled
      [] OTHER -> [Unhandled EXCEPT !.exc = "KeyError"]

-----------------------------------------------------------------------------
(* Textbox.  A text is a sequence of characters; the cursor position p has *)
(* p characters before it, so text[:p] is SubSeq(text, 1, p).              *)

MaxText == 3

(* str.isspace for one character *)
isspace(c) == c \in {" ", "\t", "\r"}

(* str.rfind(c, start, end) and str.find(c, start): 0-based, -1 when absent *)
rfind(text, c, start, end) ==
    LET found == {i \in start..(end - 1) : text[i + 1] = c}
    IN  IF found = {} THEN -1 ELSE CHOOSE i \in found : \A j \in found : j <= i

find(text, c, start) ==
    LET found == {i \in start..(Len(text) - 1) : text[i + 1] = c}
    IN  IF found = {} THEN -1 ELSE CHOOSE i \in found : \A j \in found : i <= j

(* the while loops of previous_word_boundary and next_word_boundary *)
RECURSIVE Textbox_skip_back(_, _)
Textbox_skip_back(text, pos) ==
    IF pos # 0 /\ isspace(text[pos]) THEN Textbox_skip_back(text, pos - 1) ELSE pos

RECURSIVE Textbox_skip_forward(_, _)
Textbox_skip_forward(text, pos) ==
    IF pos < Len(text) /\ isspace(text[pos + 1]) THEN Textbox_skip_forward(text, pos + 1)
    ELSE pos

Textbox_word_boundary_before(word_boundary) ==
    IF word_boundary < 0 THEN 0 ELSE word_boundary + 1

Textbox_previous_word_boundary(text, pos) ==
    Textbox_word_boundary_before(rfind(text, " ", 0, Textbox_skip_back(text, pos)))

Textbox_word_boundary_after(text, pos) ==
    IF pos < 0 THEN Len(text) ELSE pos

Textbox_next_word_boundary(text, pos) ==
    Textbox_word_boundary_after(text, find(text, " ", Textbox_skip_forward(text, pos)))

(* text[:a] + text[b:] *)
Textbox_cut(text, a, b) == SubSeq(text, 1, a) \o SubSeq(text, b + 1, Len(text))

(* event.unicode: the character pygame attaches to a key-down.  The keys   *)
(* of the control characters carry them: backspace is U+0008, delete       *)
(* U+007F and escape U+001B, written here as the characters themselves;    *)
(* the cursor keys carry the empty string                                  *)
unicode(ev) ==
    CASE ev.key = "K_a" -> "a"
      [] ev.key = "K_SPACE" -> " "
      [] ev.key = "K_RETURN" -> "\r"
      [] ev.key = "K_TAB" -> "\t"
      [] ev.key = "K_BACKSPACE" -> ""
      [] ev.key = "K_DELETE" -> ""
      [] ev.key = "K_ESCAPE" -> ""
      [] OTHER -> ""

(* the Textbox object *)
Textbox(text, cursor_position, cursor_in_dict) ==
    [text |-> text, cursor_position |-> cursor_position, cursor_in_dict |-> cursor_in_dict]

(* the Textbox after key_down, and the value key_down returned *)
KeyDownResult(text, cursor_position, value) ==
    [value |-> value, text |-> text, cursor_position |-> cursor_position]

(* Textbox.key_down, K_LEFT *)
Textbox_key_down_left(text, cursor_position, ctrl) ==
    IF cursor_position # 0
    THEN KeyDownResult(text,
            IF ctrl THEN Textbox_previous_word_boundary(text, cursor_position)
            ELSE cursor_position - 1, "True")
    ELSE KeyDownResult(text, cursor_position, "False")

(* K_RIGHT without the test against the length of the text *)
Textbox_key_down_right_unbounded(text, cursor_position, ctrl) ==
    KeyDownResult(text,
        IF ctrl THEN Textbox_next_word_boundary(text, cursor_position)
        ELSE cursor_position + 1, "True")

(* Textbox.key_down, K_RIGHT *)
Textbox_key_down_right(text, cursor_position, ctrl) ==
    IF cursor_position < Len(text)
    THEN KeyDownResult(text,
            IF ctrl THEN Textbox_next_word_boundary(text, cursor_position)
            ELSE cursor_position + 1, "True")
    ELSE KeyDownResult(text, cursor_position, "False")

(* the text after Backspace, the cut position given *)
Textbox_backspace_at(text, cursor_position, cut_pos) ==
    KeyDownResult(Textbox_cut(text, cut_pos, cursor_position), cut_pos, "True")

(* K_BACKSPACE leaving the cursor where it was *)
Textbox_key_down_backspace_keep_cursor(text, cursor_position, ctrl) ==
    IF cursor_position # 0
    THEN [Textbox_backspace_at(text, cursor_position,
            IF ctrl THEN Textbox_previous_word_boundary(text, cursor_position)
            ELSE cursor_position - 1) EXCEPT !.cursor_position = cursor_position]
    ELSE KeyDownResult(text, cursor_position, "False")

(* Textbox.key_down, K_BACKSPACE *)
Textbox_key_down_backspace(text, cursor_position, ctrl) ==
    IF cursor_position # 0
    THEN Textbox_backspace_at(text, cursor_position,
            IF ctrl THEN Textbox_previous_word_boundary(text, cursor_position)
            ELSE cursor_position - 1)
    ELSE KeyDownResult(text, cursor_position, "False")

(* Textbox.key_down, K_DELETE *)
Textbox_key_down_delete(text, cursor_position, ctrl) ==
    IF cursor_position < Len(text)
    THEN KeyDownResult(
            Textbox_cut(text, cursor_position,
                IF ctrl THEN Textbox_next_word_boundary(text, cursor_position)
                ELSE cursor_position + 1),
            cursor_position, "True")
    ELSE KeyDownResult(text, cursor_position, "False")

(* K_HOME reporting a change whether or not the cursor moved *)
Textbox_key_down_home_always_true(text, cursor_position) ==
    KeyDownResult(text, 0, "True")

(* Textbox.key_down, K_HOME *)
Textbox_key_down_home(text, cursor_position) ==
    IF cursor_position # 0 THEN KeyDownResult(text, 0, "True")
    ELSE KeyDownResult(text, cursor_position, "False")

(* Textbox.key_down, K_END *)
Textbox_key_down_end(text, cursor_position) ==
    IF cursor_position < Len(text) THEN KeyDownResult(text, Len(text), "True")
    ELSE KeyDownResult(text, cursor_position, "False")

(* Textbox.key_down, a key-down that carries a character *)
Textbox_key_down_unicode(text, cursor_position, c) ==
    KeyDownResult(
        SubSeq(text, 1, cursor_position) \o <<c>>
            \o SubSeq(text, cursor_position + 1, Len(text)),
        cursor_position + 1, "True")

(* Textbox.key_down *)
Textbox_key_down(text, cursor_position, ev) ==
    CASE ev.key = "K_LEFT" ->
            Textbox_key_down_left(text, cursor_position, "KMOD_CTRL" \in ev.mod)
      [] ev.key = "K_RIGHT" ->
            Textbox_key_down_right(text, cursor_position, "KMOD_CTRL" \in ev.mod)
      [] ev.key = "K_BACKSPACE" ->
            Textbox_key_down_backspace(text, cursor_position, "KMOD_CTRL" \in ev.mod)
      [] ev.key = "K_DELETE" ->
            Textbox_key_down_delete(text, cursor_position, "KMOD_CTRL" \in ev.mod)
      [] OTHER ->
            IF "KMOD_CTRL" \in ev.mod THEN KeyDownResult(text, cursor_position, "None")
            ELSE IF ev.key = "K_HOME" THEN Textbox_key_down_home(text, cursor_position)
            ELSE IF ev.key = "K_END" THEN Textbox_key_down_end(text, cursor_position)
            ELSE IF unicode(ev) # ""
            THEN Textbox_key_down_unicode(text, cursor_position, unicode(ev))
            ELSE KeyDownResult(text, cursor_position, "False")

(* the state of the binary search of cursor_at: its bounds, the index it   *)
(* probed last and whether it returned                                     *)
Search(start, end, cursor, returned) ==
    [start |-> start, end |-> end, cursor |-> cursor, returned |-> returned]

(* cursor_at up to the while loop: the search starts over 0..len(text) *)
Textbox_cursor_at_begin(len) == Search(0, len, None, FALSE)

(* the loop body moving end to the probe instead of below it *)
Textbox_cursor_at_step_end_at_probe(lefts, widget_x, s) ==
    IF s.start <= s.end
    THEN LET cursor == s.start + ((s.end - s.start) \div 2)
             left == lefts[cursor + 1]
         IN  IF left > widget_x THEN Search(s.start, cursor, cursor, FALSE)
             ELSE IF left < widget_x THEN Search(cursor + 1, s.end, cursor, FALSE)
             ELSE Search(s.start, s.end, cursor, TRUE)
    ELSE [s EXCEPT !.returned = TRUE]

(* one evaluation of the loop condition of cursor_at and, when it holds,   *)
(* of the loop body.  lefts[i + 1] is cursor_indicator_widget_x(i).        *)
Textbox_cursor_at_step(lefts, widget_x, s) ==
    IF s.start <= s.end
    THEN LET cursor == s.start + ((s.end - s.start) \div 2)
             left == lefts[cursor + 1]
         IN  IF left > widget_x THEN Search(s.start, cursor - 1, cursor, FALSE)
             ELSE IF left < widget_x THEN Search(cursor + 1, s.end, cursor, FALSE)
             ELSE Search(s.start, s.end, cursor, TRUE)
    ELSE [s EXCEPT !.returned = TRUE]

RECURSIVE Textbox_cursor_at_loop(_, _, _)
Textbox_cursor_at_loop(lefts, widget_x, s) ==
    IF s.returned THEN s.cursor
    ELSE Textbox_cursor_at_loop(lefts, widget_x, Textbox_cursor_at_step(lefts, widget_x, s))

(* Textbox.cursor_at, given the x of every cursor index *)
Textbox_cursor_at(lefts, rect_left, abs_x) ==
    Textbox_cursor_at_loop(lefts, abs_x - rect_left, Textbox_cursor_at_begin(Len(lefts) - 1))

----------------------------------------------------------------------------
(* Events offered to the Dialog *)

Keys == {"K_TAB", "K_ESCAPE", "K_RETURN", "K_SPACE", "K_a"}

Mods == SUBSET {"KMOD_SHIFT", "KMOD_ALT"}

(* pointer positions: outside every widget, inside each widget of both     *)
(* Dialog shapes, and between the two widgets of the inner layout          *)
Points == {<<0, 0>>, <<1, 1>>, <<4, 1>>, <<1, 4>>, <<3, 4>>, <<4, 4>>}

NoEvent == OtherEvent("None")

(* font.size(text)[0] with a font in which a letter is two wide, the space *)
(* is one wide and the control characters have no width                    *)
CharWidth(c) == CASE c \in {"a", "b", "c", "d"} -> 2 [] c = " " -> 1 [] OTHER -> 0

RECURSIVE font_size(_)
font_size(t) == IF Len(t) = 0 THEN 0 ELSE CharWidth(Head(t)) + font_size(Tail(t))

(* the element of the tree with the given widget id *)
ElementOf(w) ==
    LET ws == widgets(root)
    IN  ws[CHOOSE i \in 1..Len(ws) : ws[i].id = w]

(* Textbox.cursor_indicator_widget_x for every cursor index of the text;   *)
(* text_rect.left is padding_left after get_surface, the Textbox being     *)
(* aligned left                                                            *)
Textbox_lefts(elem, t) ==
    [i \in 1..(Len(t) + 1) |-> elem.padding_left + font_size(SubSeq(t, 1, i - 1))]

(* Textbox.click *)
Textbox_click(elem, t, pos) ==
    KeyDownResult(t, Textbox_cursor_at(Textbox_lefts(elem, t), elem.rect.left, pos[1]),
                  "NotCalled")

(* the calls of a handler that reach a Textbox *)
IsTextboxCall(c) == c.method \in {"key_down", "click"} /\ ClsOf(c.widget) = "Textbox"

TextboxCalls(cs) == SelectSeq(cs, IsTextboxCall)

(* what the call a handler made does to the Textbox *)
Textbox_handle(tc, ev) ==
    IF tc = <<>> THEN KeyDownResult(textbox.text, textbox.cursor_position, "NotCalled")
    ELSE IF tc[1].method = "key_down"
    THEN Textbox_key_down(textbox.text, textbox.cursor_position, ev)
    ELSE Textbox_click(ElementOf(tc[1].widget), textbox.text, tc[1].pos)

(* whether the call assigned cursor_position: click always does, key_down  *)
(* in every branch that returns True but the one of K_DELETE               *)
Textbox_assigns_cursor(tc, tb, ev) ==
    /\ tc # <<>>
    /\ \/ tc[1].method = "click"
       \/ tb.value = "True" /\ ev.key # "K_DELETE"

(* Widget.__setattr__ for the assignments to text and cursor_position: the *)
(* widget is dirty when a value changed or was not in __dict__ before      *)
Textbox_setattr(ws, tc, tb, ev) ==
    IF \/ tb.text # textbox.text
       \/ tb.cursor_position # textbox.cursor_position
       \/ Textbox_assigns_cursor(tc, tb, ev) /\ ~textbox.cursor_in_dict
    THEN [ws EXCEPT ![tc[1].widget].dirty = TRUE]
    ELSE ws

TextboxApply(tc, tb, ws, ev) ==
    /\ Len(tb.text) <= Max(MaxText, Len(textbox.text))
    /\ textbox' = Textbox(tb.text, tb.cursor_position,
                          textbox.cursor_in_dict \/ Textbox_assigns_cursor(tc, tb, ev))
    /\ key_down_event' = IF tc # <<>> /\ tc[1].method = "key_down" THEN ev ELSE NoEvent
    /\ key_down_return' = tb.value
    /\ wstate' = Textbox_setattr(ws, tc, tb, ev)

TextboxEffect(tc, ws, ev) == TextboxApply(tc, Textbox_handle(tc, ev), ws, ev)

(* event_handlers[event.type](event): what the handler does to the Dialog *)
Handle(ev) ==
    /\ LET res == event_handlers(ev)
       IN  /\ TextboxEffect(TextboxCalls(res.calls), res.wstate, ev)
           /\ focused_widget' = res.focused_widget
           /\ hovered_widget' = res.hovered_widget
           /\ mouse_down_widget' = res.mouse_down_widget
           /\ run_loop' = res.run_loop
           /\ calls' = res.calls
           /\ exc' = res.exc
           /\ click_snapshot' =
                IF ev.type = "MOUSEBUTTONDOWN"
                THEN [focused_widget |-> focused_widget, target |-> res.mouse_down_widget,
                      phase |-> "down", focused |-> FocusedSet(wstate)]
                ELSE IF ev.type = "MOUSEBUTTONUP" /\ click_snapshot.phase = "down"
                THEN [click_snapshot EXCEPT !.phase = "up"]
                ELSE NoSnapshot
    /\ event' = ev
    /\ prev_focused_widget' = focused_widget
    /\ UNCHANGED <<layout_vars, radio_vars, search_vars, object_vars>>

(* one event taken from pygame.event.get() and dispatched by _main_loop;   *)
(* the for statement of line 1234 does not read _run_loop, an event that   *)
(* follows a close() in its batch is dispatched as well                    *)
Dispatch(ev) ==
    /\ pc = "positioned" /\ exc = "None"
    /\ Handle(ev)
    /\ UNCHANGED loop_vars

KeyDown == \E key \in Keys, mod \in Mods : Dispatch(KeyEvent(key, mod))

MouseMotion == \E pos \in Points : Dispatch(MouseEvent("MOUSEMOTION", pos))

MouseButtonDown == \E pos \in Points : Dispatch(MouseEvent("MOUSEBUTTONDOWN", pos))

MouseButtonUp == \E pos \in Points : Dispatch(MouseEvent("MOUSEBUTTONUP", pos))

Quit == Dispatch(OtherEvent("QUIT"))

Noop == \E type \in {"KEYUP", "VIDEORESIZE"} : Dispatch(OtherEvent(type))

(* the event types pygame delivers that are neither a key-down, a pointer  *)
(* event nor quit: types of the handler table and types outside it         *)
OtherTypes == {"ACTIVEEVENT", "KEYUP", "JOYBUTTONDOWN", "VIDEORESIZE", "USEREVENT", "MOUSEWHEEL"}

OtherEvents == \E type \in OtherTypes : Dispatch(OtherEvent(type))

(* the application assigns widget.disabled (or widget.enabled) the         *)
(* opposite of its current value                                           *)
SetDisabled ==
    /\ pc = "positioned" /\ exc = "None"
    /\ \E w \in WidgetIds :
        wstate' = Widget_setattr(wstate, w, "disabled", ~wstate[w].disabled)
    /\ event' = NoEvent /\ calls' = <<>>
    /\ prev_focused_widget' = focused_widget
    /\ click_snapshot' = NoSnapshot
    /\ key_down_event' = NoEvent /\ key_down_return' = "NotCalled"
    /\ UNCHANGED <<layout_vars, exc, focused_widget, hovered_widget, mouse_down_widget, run_loop,
                 radio_vars, textbox, search_vars, object_vars, loop_vars>>

-----------------------------------------------------------------------------
(* Dialog._main_loop, one iteration after the other: loop_start(), the     *)
(* events of one pygame.event.get() dispatched in order, loop_end(), the   *)
(* repaint pass and display.update.                                        *)

MaxBatch == 2

MaxPolls == 2

NotEntered == [pos |-> "idle", batch |-> <<>>, polls |-> 0, ends |-> 0]

NoPaint == [dirty |-> {}, painted |-> <<>>, updates |-> <<>>]

DirtySet(ws) == {w \in WidgetIds : ws[w].dirty}

(* while self._run_loop *)
MainLoop_continues(run) == run

(* the for statement stopping at the first event after which _run_loop is  *)
(* False                                                                   *)
MainLoop_dispatches_while_running(batch, run) == batch # <<>> /\ run

(* for event in pygame.event.get(): the body runs for every event of the   *)
(* batch, whatever a handler did to _run_loop                              *)
MainLoop_dispatches(batch, run) == batch # <<>>

(* display.update called with an empty list as well *)
display_update_always(updates, dirty_rects) == Append(updates, dirty_rects)

(* if len(dirty_rects): display.update(dirty_rects) *)
display_update(updates, dirty_rects) ==
    IF Len(dirty_rects) # 0 THEN Append(updates, dirty_rects) ELSE updates

(* the repaint pass over self.widgets() from its i-th widget on: a dirty   *)
(* widget is filled and blitted, its rect appended to dirty_rects and its  *)
(* dirty bit cleared                                                       *)
RECURSIVE MainLoop_repaint(_, _, _)

MainLoop_repaint(ws, i, acc) ==
    IF i > Len(ws) THEN acc
    ELSE IF acc.wstate[ws[i].id].dirty
    THEN MainLoop_repaint(ws, i + 1,
            [wstate |-> Widget_setattr(acc.wstate, ws[i].id, "dirty", FALSE),
             painted |-> Append(acc.painted, ws[i].id),
             dirty_rects |-> Append(acc.dirty_rects, ws[i].rect)])
    ELSE MainLoop_repaint(ws, i + 1, acc)

(* the repaint pass and display.update of lines 1236-1243 *)
MainLoop_paint(ws) ==
    MainLoop_repaint(widgets(root), 1, [wstate |-> ws, painted |-> <<>>, dirty_rects |-> <<>>])

(* the tail of an iteration of _main_loop: every dirty widget is painted   *)
(* and its dirty bit cleared, display.update is called with their rects    *)
Repaint ==
    /\ pc = "positioned" /\ exc = "None"
    /\ wstate' = MainLoop_paint(wstate).wstate
    /\ paint' = [dirty |-> DirtySet(wstate), painted |-> MainLoop_paint(wstate).painted,
                 updates |-> display_update(<<>>, MainLoop_paint(wstate).dirty_rects)]
    /\ event' = NoEvent /\ calls' = <<>>
    /\ prev_focused_widget' = focused_widget
    /\ click_snapshot' = NoSnapshot
    /\ key_down_event' = NoEvent /\ key_down_return' = "NotCalled"
    /\ UNCHANGED <<layout_vars, exc, focused_widget, hovered_widget, mouse_down_widget, run_loop,
                 radio_vars, textbox, search_vars, object_vars, loop>>

(* the events a batch is made of: Tab, Escape, pointer motion, a click on  *)
(* the first widget, quit and a key-up                                     *)
LoopEvents ==
    {KeyEvent("K_TAB", {}), KeyEvent("K_ESCAPE", {}),
     MouseEvent("MOUSEMOTION", <<1, 1>>), MouseEvent("MOUSEBUTTONDOWN", <<1, 1>>),
     MouseEvent("MOUSEBUTTONUP", <<1, 1>>), OtherEvent("QUIT"), OtherEvent("KEYUP")}

Batches == UNION {[1..n -> LoopEvents] : n \in 0..MaxBatch}

(* _main_loop is entered *)
MainLoop ==
    /\ pc = "positioned" /\ exc = "None" /\ loop.pos = "idle"
    /\ mouse_down_widget' = None
    /\ loop' = [loop EXCEPT !.pos = "while"]
    /\ UNCHANGED <<layout_vars, exc, wstate, focused_widget, hovered_widget, run_loop,
                 history_vars, radio_vars, textbox_vars, search_vars, object_vars, paint>>

(* the while test holds: loop_start(), then pygame.event.get() *)
LoopStart ==
    /\ loop.pos = "while" /\ MainLoop_continues(run_loop) /\ loop.polls < MaxPolls
    /\ \E batch \in Batches :
        loop' = [loop EXCEPT !.pos = "events", !.batch = batch, !.polls = @ + 1]
    /\ UNCHANGED <<layout_vars, exc, dialog_vars, history_vars, radio_vars, textbox_vars,
                 search_vars, object_vars, paint>>

(* the next event of the batch is dispatched; an exception a handler       *)
(* raises leaves _main_loop                                                *)
LoopEvent ==
    /\ loop.pos = "events" /\ MainLoop_dispatches(loop.batch, run_loop)
    /\ Handle(Head(loop.batch))
    /\ loop' = [loop EXCEPT !.batch = Tail(@),
                            !.pos = IF exc' = "None" THEN "events" ELSE "raised"]
    /\ UNCHANGED paint

(* the batch is done: loop_end(), the repaint pass and display.update *)
LoopEnd ==
    /\ loop.pos = "events" /\ ~MainLoop_dispatches(loop.batch, run_loop)
    /\ LET res == MainLoop_paint(wstate)
       IN  /\ wstate' = res.wstate
           /\ paint' = [dirty |-> DirtySet(wstate), painted |-> res.painted,
                        updates |-> display_update(<<>>, res.dirty_rects)]
    /\ loop' = [loop EXCEPT !.pos = "while", !.ends = @ + 1]
    /\ event' = NoEvent /\ calls' = <<>>
    /\ prev_focused_widget' = focused_widget
    /\ click_snapshot' = NoSnapshot
    /\ key_down_event' = NoEvent /\ key_down_return' = "NotCalled"
    /\ UNCHANGED <<layout_vars, exc, focused_widget, hovered_widget, mouse_down_widget, run_loop,
                 radio_vars, textbox, search_vars, object_vars>>

(* the while test fails: exit_loop() of every class, and _main_loop        *)
(* returns                                                                 *)
LoopExit ==
    /\ loop.pos = "while" /\ ~MainLoop_continues(run_loop)
    /\ loop' = [loop EXCEPT !.pos = "exited"]
    /\ UNCHANGED <<layout_vars, exc, dialog_vars, history_vars, radio_vars, textbox_vars,
                 search_vars, object_vars, paint>>

-----------------------------------------------------------------------------
(* one evaluation of the loop of cursor_at *)
CursorAtStep ==
    /\ ~search.returned
    /\ search' = Textbox_cursor_at_step(cursor_xs, click_x, search)
    /\ UNCHANGED <<cursor_xs, click_x>>
    /\ UNCHANGED <<layout_vars, exc, dialog_vars, history_vars, radio_vars, textbox_vars,
                 object_vars, loop_vars>>

(* Events offered to a Dialog with a Textbox, and direct calls of the      *)
(* methods of the Textbox                                                  *)

TextKeys == {"K_LEFT", "K_RIGHT", "K_BACKSPACE", "K_DELETE", "K_HOME", "K_END",
             "K_a", "K_SPACE", "K_RETURN", "K_F1"}

TextMods == {{}, {"KMOD_CTRL"}, {"KMOD_ALT"}}

(* the x of a click: NO_POSITION's, the left edge of the Dialog, and on to *)
(* the right of the Textbox                                                *)
ClickXs == -1..13

(* key_down of the Textbox called with an event *)
TextboxKeyDown ==
    /\ pc = "positioned" /\ exc = "None"
    /\ \E key \in TextKeys, mod \in TextMods, w \in WidgetIds :
        /\ ClsOf(w) = "Textbox"
        /\ TextboxEffect(<<Call("key_down", w, NO_POSITION)>>, wstate, KeyEvent(key, mod))
    /\ UNCHANGED <<layout_vars, exc, focused_widget, hovered_widget, mouse_down_widget, run_loop,
                 history_vars, radio_vars, search_vars, object_vars, loop_vars>>

(* click of the Textbox called with a position *)
TextboxClick ==
    /\ pc = "positioned" /\ exc = "None"
    /\ \E x \in ClickXs, w \in WidgetIds :
        /\ ClsOf(w) = "Textbox"
        /\ TextboxEffect(<<Call("click", w, <<x, 2>>)>>, wstate, NoEvent)
    /\ UNCHANGED <<layout_vars, exc, focused_widget, hovered_widget, mouse_down_widget, run_loop,
                 history_vars, radio_vars, search_vars, object_vars, loop_vars>>

(* the events dispatched to the Dialog with the Textbox: keys that move    *)
(* the focus, keys that carry a character and a key that moves the cursor; *)
(* pointer positions along the Textbox and on the Button                   *)
DialogTextKeys == {"K_TAB", "K_a", "K_SPACE", "K_LEFT"}

DialogTextPoints == {<<4, 2>>, <<8, 2>>, <<11, 2>>, <<2, 7>>}

TextKeyDown == \E key \in DialogTextKeys, mod \in TextMods : Dispatch(KeyEvent(key, mod))

TextMouseButtonDown ==
    \E pos \in DialogTextPoints : Dispatch(MouseEvent("MOUSEBUTTONDOWN", pos))

TextMouseButtonUp ==
    \E pos \in DialogTextPoints : Dispatch(MouseEvent("MOUSEBUTTONUP", pos))

-----------------------------------------------------------------------------
(* Radio groups *)

MaxRadios == 3

Groups == {"group1", "group2"}

(* Radio.__init__: the group is stored, the Radio is appended to the list  *)
(* of its group (created when missing); selected keeps the class default   *)
Radio_init_groups(groups, self, group) ==
    IF group \notin DOMAIN groups THEN groups @@ (group :> <<self>>)
    ELSE [groups EXCEPT ![group] = Append(@, self)]

Radio_init(rs, group) == Append(rs, [group |-> group, selected |-> FALSE])

(* the Radios in the list of a group *)
Radio_members(groups, group) ==
    {groups[group][i] : i \in 1..Len(groups[group])}

(* Radio.click without the loop over the group *)
Radio_click_keep_siblings(rs, groups, self) ==
    [r \in DOMAIN rs |-> IF r = self THEN [rs[r] EXCEPT !.selected = TRUE] ELSE rs[r]]

(* Radio.click: every Radio of self's group is deselected, then self is    *)
(* selected                                                                *)
Radio_click(rs, groups, self) ==
    [r \in DOMAIN rs |->
        IF r = self THEN [rs[r] EXCEPT !.selected = TRUE]
        ELSE IF r \in Radio_members(groups, rs[self].group)
        THEN [rs[r] EXCEPT !.selected = FALSE]
        ELSE rs[r]]

(* a Radio is constructed *)
RadioInit ==
    /\ Len(radios) < MaxRadios
    /\ \E group \in Groups :
        /\ Radio_groups' = Radio_init_groups(Radio_groups, Len(radios) + 1, group)
        /\ radios' = Radio_init(radios, group)
    /\ UNCHANGED <<last_selected, ever_selected>>
    /\ UNCHANGED <<layout_vars, exc, dialog_vars, history_vars, textbox_vars, search_vars,
                 object_vars, loop_vars>>

(* click() of a Radio runs *)
RadioClick ==
    /\ \E self \in DOMAIN radios :
        /\ radios' = Radio_click(radios, Radio_groups, self)
        /\ last_selected' = [last_selected EXCEPT ![radios[self].group] = self]
        /\ ever_selected' = ever_selected \cup {self}
    /\ UNCHANGED Radio_groups
    /\ UNCHANGED <<layout_vars, exc, dialog_vars, history_vars, textbox_vars, search_vars,
                 object_vars, loop_vars>>

(* cursor_at is entered with the x of every cursor index and the x to find *)
InitSearch(xs, x) ==
    /\ cursor_xs = xs /\ click_x = x
    /\ search = Textbox_cursor_at_begin(Len(xs) - 1)

InitRadio ==
    /\ Radio_groups = <<>> /\ radios = <<>>
    /\ last_selected = [g \in Groups |-> None]
    /\ ever_selected = {}

----------------------------------------------------------------------------
(* Attribute assignment.  A widget object is its class, its instance       *)
(* dictionary __dict__ restricted to margin, padding, their sides, the     *)
(* status bits and text, and, for a Radio, the dictionary of the Label it  *)
(* holds in _label.  A value of margin or padding is a number, Scalar(n),   *)
(* or a tuple of numbers, Tuple(items).                                     *)

MaxAssignments == 3

EmptyDict == [k \in {} |-> FALSE]

MarginSides == {"margin_top", "margin_right", "margin_bottom", "margin_left"}

PaddingSides == {"padding_top", "padding_right", "padding_bottom", "padding_left"}

StatusBits == {"disabled", "hovering", "focused"}

(* Widget's class defaults for margin and padding, and Button's padding *)
Widget_margin == 10

Widget_padding == 8

Button_padding == 16

(* self.__dict__[varname] = value *)
Object_setattr(dict, varname, value) ==
    [k \in DOMAIN dict \cup {varname} |-> IF k = varname THEN value ELSE dict[k]]

(* lines 552-554: dirty is set when the attribute is not dirty itself and  *)
(* is new in __dict__ or changes its value; then the value is stored       *)
Widget_setattr_store(dict, varname, value) ==
    Object_setattr(IF varname # "dirty" /\ (varname \notin DOMAIN dict \/ dict[varname] # value)
                   THEN Object_setattr(dict, "dirty", TRUE)
                   ELSE dict,
                   varname, value)

(* lines 520-524 and 533-537, a tuple of two: top and bottom take the      *)
(* first item, left and right the second; prefix is "margin" or "padding"  *)
Widget_setattr_tuple2(dict, prefix, value) ==
    IF prefix = "margin"
    THEN Widget_setattr_store(Widget_setattr_store(Widget_setattr_store(Widget_setattr_store(
            dict, "margin_top", value.items[1]), "margin_bottom", value.items[1]),
            "margin_left", value.items[2]), "margin_right", value.items[2])
    ELSE Widget_setattr_store(Widget_setattr_store(Widget_setattr_store(Widget_setattr_store(
            dict, "padding_top", value.items[1]), "padding_bottom", value.items[1]),
            "padding_left", value.items[2]), "padding_right", value.items[2])

(* lines 525-529 and 538-542, a tuple of four: top, right, bottom, left *)
Widget_setattr_tuple4(dict, prefix, value) ==
    IF prefix = "margin"
    THEN Widget_setattr_store(Widget_setattr_store(Widget_setattr_store(Widget_setattr_store(
            dict, "margin_top", value.items[1]), "margin_right", value.items[2]),
            "margin_bottom", value.items[3]), "margin_left", value.items[4])
    ELSE Widget_setattr_store(Widget_setattr_store(Widget_setattr_store(Widget_setattr_store(
            dict, "padding_top", value.items[1]), "padding_right", value.items[2]),
            "padding_bottom", value.items[3]), "padding_left", value.items[4])

(* a margin or padding value, and whether it is a tuple *)
Scalar(n) == [items |-> <<n>>, tuple |-> FALSE]

Tuple(items) == [items |-> items, tuple |-> TRUE]

(* isinstance(value, tuple) for a margin or padding *)
IsTuple(value) == value.tuple

(* Widget.__setattr__ raises "Invalid margin value" / "Invalid padding     *)
(* value" for a tuple that has neither two nor four items                  *)
Widget_setattr_raises(varname, value) ==
    varname \in {"margin", "padding"} /\ IsTuple(value) /\ Len(value.items) \notin {2, 4}

(* Widget.__setattr__ on the __dict__ of self, for an assignment that does *)
(* not raise                                                               *)
Widget_setattr_dict(dict, varname, value) ==
    IF varname \in {"margin", "padding"} /\ IsTuple(value)
    THEN Widget_setattr_store(
            IF Len(value.items) = 2 THEN Widget_setattr_tuple2(dict, varname, value)
            ELSE Widget_setattr_tuple4(dict, varname, value),
            varname, value)
    ELSE IF varname = "enabled" THEN Widget_setattr_store(dict, "disabled", ~value)
    ELSE Widget_setattr_store(dict, varname, value)

(* Radio.__setattr__: text is assigned to the Label in _label, through the *)
(* Label's Widget.__setattr__; anything else is Widget.__setattr__ on self *)
Radio_setattr(self, varname, value) ==
    IF varname = "text"
    THEN [self EXCEPT !.label = Widget_setattr_dict(@, "text", value)]
    ELSE [self EXCEPT !.dict = Widget_setattr_dict(@, varname, value)]

(* setattr(self, varname, value) by the class of self *)
setattr(self, varname, value) ==
    IF self.cls = "Radio" THEN Radio_setattr(self, varname, value)
    ELSE [self EXCEPT !.dict = Widget_setattr_dict(@, varname, value)]

(* the class attributes of Widget and Button that an instance without the  *)
(* entry in __dict__ reads                                                 *)
ClassAttribute(cls, varname) ==
    CASE varname = "margin" -> Scalar(Widget_margin)
      [] varname = "padding" -> Scalar(IF cls = "Button" THEN Button_padding ELSE Widget_padding)
      [] varname = "text" -> ""
      [] OTHER -> FALSE

(* attribute lookup without __getattr__: __dict__, then the class *)
Object_getattr(self, varname) ==
    IF varname \in DOMAIN self.dict THEN self.dict[varname]
    ELSE ClassAttribute(self.cls, varname)

(* self.<varname>: Widget.__getattr__ answers a side that was never set    *)
(* with self.margin / self.padding, Radio.__getattr__ answers text with    *)
(* the text of the Label.  A side that was set is the number stored.       *)
getattr(self, varname) ==
    IF varname \in MarginSides \cup PaddingSides
    THEN IF varname \in DOMAIN self.dict THEN Scalar(self.dict[varname])
         ELSE Object_getattr(self, IF varname \in MarginSides THEN "margin" ELSE "padding")
    ELSE IF varname = "text" /\ self.cls = "Radio" THEN self.label["text"]
    ELSE Object_getattr(self, varname)

(* the widget object *)
WidgetObject(cls, dict, label) == [cls |-> cls, dict |-> dict, label |-> label]

(* TextWidget.__init__ for Label(text), Button(text), Textbox(text):       *)
(* self.text = text finds no text in __dict__ and sets dirty               *)
TextWidget_init(cls, text) ==
    WidgetObject(cls, Widget_setattr_dict(EmptyDict, "text", text), EmptyDict)

(* Radio.__init__ for Radio(group, text): self.group = group sets dirty,   *)
(* then self._label = Label(text)                                          *)
Radio_init_object(text) ==
    WidgetObject("Radio", Object_setattr(EmptyDict, "dirty", TRUE),
                 TextWidget_init("Label", text).dict)

(* the assignment made last, and how many were made since construction *)
Assignment(varname, value, count) == [varname |-> varname, value |-> value, count |-> count]

NoAssignment == Assignment("", FALSE, 0)

NoWidget == WidgetObject("None", EmptyDict, EmptyDict)

(* the attributes assigned and the values they are given *)
Numbers == {0, 1}

AttrNames ==
    {"margin", "padding", "enabled", "text", "dirty"}
        \cup MarginSides \cup PaddingSides \cup StatusBits

AttrValues(varname) ==
    IF varname \in {"margin", "padding"}
    THEN {Scalar(n) : n \in Numbers}
            \cup {Tuple(<<0, 1>>), Tuple(<<1, 0, 1, 0>>), Tuple(<<0, 1, 0>>), Tuple(<<1>>)}
    ELSE IF varname \in MarginSides \cup PaddingSides THEN Numbers
    ELSE IF varname = "text" THEN {"A", "B"}
    ELSE BOOLEAN

(* Widget.__init__, line 499: every option of kwargs is assigned with      *)
(* setattr, in the order given                                             *)
RECURSIVE Widget_init_kwargs(_, _)
Widget_init_kwargs(dict, kwargs) ==
    IF kwargs = <<>> THEN dict
    ELSE Widget_init_kwargs(Widget_setattr_dict(dict, kwargs[1][1], kwargs[1][2]), Tail(kwargs))

(* Widget.__init__: after the options, line 501 assigns effect_func, which *)
(* is not in __dict__ yet, so that the assignment sets dirty               *)
Widget_init_dict(dict, kwargs) == Object_setattr(Widget_init_kwargs(dict, kwargs), "dirty", TRUE)

(* an option of kwargs makes Widget.__setattr__ raise *)
Widget_init_raises(kwargs) ==
    \E i \in 1..Len(kwargs) : Widget_setattr_raises(kwargs[i][1], kwargs[i][2])

(* cls(text, **kwargs) for a Label, Button or Textbox: TextWidget.__init__  *)
(* assigns the text, then Widget.__init__ the options.  Radio(group, text,  *)
(* **kwargs): the group and the options are assigned to the Radio, then    *)
(* the Label of _label is built with the same options                      *)
Construct_object(cls, text, kwargs) ==
    IF cls = "Radio"
    THEN WidgetObject(cls, Widget_init_dict(Radio_init_object(text).dict, kwargs),
                      Widget_init_dict(Radio_init_object(text).label, kwargs))
    ELSE WidgetObject(cls, Widget_init_dict(TextWidget_init(cls, text).dict, kwargs), EmptyDict)

MaxOptions == 1

(* option names that no class of the module defines and no __setattr__ or  *)
(* __getattr__ knows                                                       *)
UnrecognisedOptions == {"widht", "colour"}

(* the options a constructor is given; text is the positional argument *)
OptionNames == (AttrNames \ {"text"}) \cup UnrecognisedOptions

OptionValues(varname) ==
    IF varname \in UnrecognisedOptions THEN Numbers ELSE AttrValues(varname)

Options == UNION {{<<varname, value>> : value \in OptionValues(varname)} : varname \in OptionNames}

Kwargs ==
    {kwargs \in UNION {[1..n -> Options] : n \in 0..MaxOptions} :
        \A i, j \in 1..Len(kwargs) : kwargs[i][1] = kwargs[j][1] => i = j}

(* a widget is constructed with options; Radio.__init__ appends the Radio  *)
(* to the list of its group before Widget.__init__ assigns the options,    *)
(* so that a Radio whose construction raises stays in Radio._groups        *)
Construct ==
    /\ exc = "None" /\ object = NoWidget
    /\ \E cls \in {"Label", "Button", "Textbox", "Radio"}, kwargs \in Kwargs :
        /\ IF Widget_init_raises(kwargs)
           THEN exc' = "Exception" /\ object' = object
           ELSE exc' = exc /\ object' = Construct_object(cls, "A", kwargs)
        /\ Radio_groups' = IF cls = "Radio"
                           THEN Radio_init_groups(Radio_groups, Len(radios) + 1, "group1")
                           ELSE Radio_groups
        /\ radios' = IF cls = "Radio" THEN Radio_init(radios, "group1") ELSE radios
    /\ UNCHANGED <<layout_vars, dialog_vars, history_vars, last_selected, ever_selected,
                 textbox_vars, search_vars, assignment, loop_vars>>

(* widget.<varname> = value, by the program or by the repaint loop of      *)
(* Dialog._main_loop (widget.dirty = False)                                *)
SetAttr ==
    /\ exc = "None" /\ assignment.count < MaxAssignments
    /\ \E varname \in AttrNames : \E value \in AttrValues(varname) :
        /\ assignment' = Assignment(varname, value, assignment.count + 1)
        /\ IF Widget_setattr_raises(varname, value)
           THEN exc' = "Exception" /\ object' = object
           ELSE exc' = exc /\ object' = setattr(object, varname, value)
    /\ UNCHANGED <<layout_vars, dialog_vars, history_vars, radio_vars, textbox_vars, search_vars,
                 loop_vars>>

----------------------------------------------------------------------------
(* Initial states *)

Zero4 == <<0, 0, 0, 0>>

Leaf(w, h, margin, padding) == TextWidget("Label", 0, w, h, margin, padding)

Sizes == 1..MaxSize

Margins == {<<m, m, m, m>> : m \in {0, MaxMargin}} \cup {<<0, MaxMargin, MaxMargin, 0>>}

(* a widget is wider than tall, taller than wide, or the largest square *)
SizePairs == {<<s, MaxSize + 1 - s>> : s \in Sizes} \cup {<<MaxSize, MaxSize>>}

Leaves == {Leaf(wh[1], wh[2], m, Zero4) : wh \in SizePairs, m \in Margins}

SmallLeaves ==
    {Leaf(1, MaxSize, Zero4, Zero4),
     Leaf(MaxSize, 1, <<MaxMargin, MaxMargin, MaxMargin, MaxMargin>>, Zero4),
     Leaf(1, 1, <<0, MaxMargin, 1, 0>>, <<1, 0, 0, 1>>)}

GridLeaves ==
    {Leaf(1, MaxSize, Zero4, Zero4),
     Leaf(MaxSize, 1, <<MaxMargin, 1, MaxMargin, MaxMargin>>, Zero4)}

SeqsUpTo(S, n) == UNION {[1..k -> S] : k \in 0..n}

(* a HorizontalLayout or VerticalLayout of up to MaxChildren widgets *)
FlatTrees ==
    {LinearLayout(kind, elements) :
        kind \in {"HorizontalLayout", "VerticalLayout"},
        elements \in SeqsUpTo(Leaves, MaxChildren)}

(* a GridLayout of up to MaxRows rows of up to MaxCols cells, rows of any  *)
(* length                                                                  *)
GridTrees == {GridLayout(rows) : rows \in SeqsUpTo(SeqsUpTo(GridLeaves, MaxCols), MaxRows)}

InnerTrees ==
    {LinearLayout(kind, <<a, b>>) :
        kind \in {"HorizontalLayout", "VerticalLayout"}, a \in SmallLeaves, b \in SmallLeaves}
    \cup {GridLayout(<<<<a, b>>, <<b, a>>>>) : a \in SmallLeaves, b \in SmallLeaves}

(* a layout inside a layout, before or after a widget *)
NestedTrees ==
    {LinearLayout(kind, elements) :
        kind \in {"HorizontalLayout", "VerticalLayout"},
        elements \in {<<x, y>> : x \in SmallLeaves, y \in InnerTrees}
                     \cup {<<y, x>> : x \in SmallLeaves, y \in InnerTrees}}

LayoutTrees == FlatTrees \cup GridTrees \cup NestedTrees

(* HorizontalLayout() and VerticalLayout(), constructed without children *)
EmptyLayouts == {LinearLayout(kind, <<>>) : kind \in {"HorizontalLayout", "VerticalLayout"}}

LinearKinds == {"HorizontalLayout", "VerticalLayout", "Dialog"}

(* a layout without children inside a linear layout or a Dialog, first,    *)
(* last or between two widgets                                             *)
EmptyInLinear(inner) ==
    {LinearLayout(kind, elements) :
        kind \in LinearKinds,
        elements \in UNION {{<<x, e>>, <<e, x>>, <<x, e, x>>} : x \in SmallLeaves, e \in inner}}

(* a layout without children in a cell of a GridLayout with rows of equal  *)
(* and of different lengths                                                *)
EmptyInGrid(inner) ==
    {GridLayout(rows) :
        rows \in UNION {{<<<<x, e>>, <<x, x>>>>, <<<<x, x>>, <<e, x>>>>, <<<<x>>, <<x, e>>>>,
                         <<<<x, x, x>>, <<e>>>>, <<<<x, x, x>>, <<x>>, <<e>>>>} :
                            x \in GridLeaves, e \in inner}}

(* trees that hold a layout without children: Dialog(), the empty layouts, *)
(* and an empty layout one, two or three levels down                       *)
EmptyLayoutTrees ==
    {LinearLayout("Dialog", <<>>)} \cup EmptyLayouts
        \cup EmptyInLinear(EmptyLayouts) \cup EmptyInGrid(EmptyLayouts)
        \cup EmptyInLinear(EmptyInGrid(EmptyLayouts))
        \cup {LinearLayout(kind, <<x, y>>) :
                kind \in LinearKinds, x \in GridLeaves,
                y \in {LinearLayout("VerticalLayout", <<x2, e>>) :
                            x2 \in GridLeaves, e \in EmptyLayouts}}

(* the widgets of the Dialogs; every Button has a click handler attached *)
DialogWidget(cls, id) ==
    IF cls = "Button" THEN WithClickHandler(TextWidget(cls, id, 2, 2, <<1, 1, 1, 1>>, Zero4))
    ELSE TextWidget(cls, id, 2, 2, <<1, 1, 1, 1>>, Zero4)

Classes == {"Label", "Button"}

(* Dialog(w1, HorizontalLayout(w2, w3)) and Dialog(GridLayout([w1, w2]), w3), *)
(* all Buttons or with one Label                                             *)
DialogTrees ==
    {LinearLayout("Dialog",
        <<DialogWidget("Button", 1),
          HorizontalLayout(<<DialogWidget(c, 2), DialogWidget("Button", 3)>>)>>) :
        c \in Classes}
    \cup
    {LinearLayout("Dialog",
        <<GridLayout(<<<<DialogWidget(c, 1), DialogWidget("Button", 2)>>>>),
          DialogWidget(c, 3)>>) :
        c \in Classes}

(* the Dialog after __init__; every TextWidget is dirty after construction *)
(* because TextWidget.__init__ assigns its text, and dirty is the only     *)
(* status bit in its __dict__                                              *)
InitDialog ==
    /\ pc = "constructed" /\ exc = "None"
    /\ wstate = [w \in WidgetIds |->
                    [disabled |-> FALSE, dirty |-> TRUE, in_dict |-> {"dirty"},
                     focused |-> FALSE, hovering |-> FALSE]]
    /\ focused_widget = None /\ hovered_widget = None /\ mouse_down_widget = None
    /\ run_loop = TRUE
    /\ event = NoEvent /\ calls = <<>>
    /\ prev_focused_widget = None
    /\ click_snapshot = NoSnapshot
    /\ InitRadio
    /\ key_down_event = NoEvent /\ key_down_return = "NotCalled"
    /\ loop = NotEntered /\ paint = NoPaint

(* no Textbox in the tree, cursor_at not entered *)
InitNoTextbox == textbox = Textbox(<<>>, 0, FALSE)

InitNoSearch == InitSearch(<<0>>, 0)

(* no widget object outside the tree *)
InitNoObject == object = NoWidget /\ assignment = NoAssignment

Init == root \in DialogTrees /\ InitDialog /\ InitNoTextbox /\ InitNoSearch /\ InitNoObject

InitLayout == root \in LayoutTrees /\ InitDialog /\ InitNoTextbox /\ InitNoSearch /\ InitNoObject

(* Dialog(HorizontalLayout(Label, Textbox(text, align=ALIGN_LEFT)), Button) *)
TextboxDialog ==
    LinearLayout("Dialog",
        <<HorizontalLayout(<<DialogWidget("Label", 1),
                             TextWidget("Textbox", 2, 6, 2, <<1, 1, 1, 1>>, <<1, 1, 1, 1>>)>>),
          DialogWidget("Button", 3)>>)

Chars == {"a", " "}

(* the texts a Textbox is constructed with *)
Texts == UNION {[1..n -> Chars] : n \in 0..MaxText}

(* after Textbox.__init__: the text is stored, cursor_position is the      *)
(* class default 0                                                         *)
InitTextbox ==
    /\ root = TextboxDialog /\ InitDialog /\ InitNoSearch /\ InitNoObject
    /\ \E t \in Texts : textbox = Textbox(t, 0, FALSE)

(* Textbox("ab cd") *)
ScenarioText == <<"a", "b", " ", "c", "d">>

InitTextboxUnit ==
    /\ root = TextboxDialog /\ InitDialog /\ InitNoSearch /\ InitNoObject
    /\ \E t \in Texts \cup {ScenarioText} : textbox = Textbox(t, 0, FALSE)

MaxX == 4

(* the x of the cursor indices of a text: non-decreasing, one more than    *)
(* the text has characters                                                 *)
PrefixWidths ==
    UNION {{xs \in [1..(n + 1) -> 0..MaxX] : \A i \in 1..n : xs[i] <= xs[i + 1]} :
            n \in 0..MaxText}

(* cursor_at entered with any such widths and any x, left of the first     *)
(* and right of the last cursor index included                             *)
InitCursorAt ==
    /\ root = TextboxDialog /\ InitDialog /\ InitNoTextbox /\ InitNoObject
    /\ \E xs \in PrefixWidths, x \in -1..(MaxX + 1) : InitSearch(xs, x)

(* Label(text, width=w, height=h) with no other option set *)
DefaultLabel(w, h) ==
    TextWidget("Label", 0, w, h,
               <<Widget_margin, Widget_margin, Widget_margin, Widget_margin>>,
               <<Widget_padding, Widget_padding, Widget_padding, Widget_padding>>)

(* vertical layouts of two labels built with explicit sizes and defaults *)
ScenarioWidths == {40, 50, 60}

ScenarioHeights == {20, 30}

ScenarioTrees ==
    {VerticalLayout(<<DefaultLabel(w1, h1), DefaultLabel(w2, h2)>>) :
        w1 \in ScenarioWidths, h1 \in ScenarioHeights,
        w2 \in ScenarioWidths, h2 \in ScenarioHeights}

InitScenario ==
    root \in ScenarioTrees /\ InitDialog /\ InitNoTextbox /\ InitNoSearch /\ InitNoObject

(* a Label, a Button, a Textbox or a Radio after its constructor *)
InitSetattr ==
    /\ root = TextboxDialog /\ InitDialog /\ InitNoTextbox /\ InitNoSearch
    /\ assignment = NoAssignment
    /\ \/ \E cls \in {"Label", "Button", "Textbox"} : object = TextWidget_init(cls, "A")
       \/ object = Radio_init_object("A")

NextLayout == GetInitialRect \/ JustifyElements \/ PositionRects

(* Click dispatch: pointer-downs and pointer-ups, between which the        *)
(* application may enable or disable widgets                               *)
Next ==
    \/ GetInitialRect \/ JustifyElements \/ PositionRects
    \/ MouseButtonDown \/ MouseButtonUp
    \/ SetDisabled

(* Hover tracking and repainting: pointer motion, the events without       *)
(* effect, quit, and the repaint that ends an iteration of the loop.       *)
(* _mousemotion reads and writes only hovering and __hovered_widget, which *)
(* no other handler touches.                                               *)
NextHover ==
    \/ GetInitialRect \/ JustifyElements \/ PositionRects
    \/ MouseMotion \/ Quit \/ Noop
    \/ Repaint

(* Pointer-downs and pointer-ups, which set focus and the mouse-down       *)
(* widget, and the events of every other type                              *)
NextOther ==
    \/ GetInitialRect \/ JustifyElements \/ PositionRects
    \/ MouseButtonDown \/ MouseButtonUp
    \/ OtherEvents

Spec == Init /\ [][Next]_vars

SpecOther == Init /\ [][NextOther]_vars

(* Focus under key-downs, pointer-downs and pointer-ups alone *)
NextFocus ==
    \/ GetInitialRect \/ JustifyElements \/ PositionRects
    \/ KeyDown \/ MouseButtonDown \/ MouseButtonUp

SpecFocus == Init /\ [][NextFocus]_vars

(* Key-downs on a Dialog whose widgets the application enables and         *)
(* disables                                                                *)
NextTab ==
    \/ GetInitialRect \/ JustifyElements \/ PositionRects
    \/ KeyDown \/ SetDisabled

SpecTab == Init /\ [][NextTab]_vars

(* The Dialog shown: the layout passes of initialize_display, then         *)
(* _main_loop                                                              *)
NextLoop ==
    \/ GetInitialRect \/ JustifyElements \/ PositionRects
    \/ MainLoop \/ LoopStart \/ LoopEvent \/ LoopEnd \/ LoopExit

SpecLoop == Init /\ [][NextLoop]_vars

(* _main_loop is one thread of control: a step it can take, it takes *)
SpecLoopLive == SpecLoop /\ WF_vars(LoopEvent) /\ WF_vars(LoopEnd) /\ WF_vars(LoopExit)

SpecHover == Init /\ [][NextHover]_vars

SpecLayout == InitLayout /\ [][NextLayout]_vars

(* Layout passes followed by a second run of the three passes              *)
NextRelayout == GetInitialRect \/ JustifyElements \/ PositionRects \/ Relayout

SpecRelayout == InitLayout /\ [][NextRelayout]_vars

(* Layout passes over the two-label layouts with default margin and padding *)
SpecScenario == InitScenario /\ [][NextLayout]_vars

(* A Dialog with a Textbox: key-downs and pointer clicks dispatched by the  *)
(* Dialog                                                                  *)
NextTextbox ==
    \/ GetInitialRect \/ JustifyElements \/ PositionRects
    \/ TextKeyDown \/ TextMouseButtonDown \/ TextMouseButtonUp

SpecTextbox == InitTextbox /\ [][NextTextbox]_vars

(* A Textbox: direct calls of key_down and click *)
NextTextboxUnit ==
    \/ GetInitialRect \/ JustifyElements \/ PositionRects
    \/ TextboxKeyDown \/ TextboxClick

SpecTextboxUnit == InitTextboxUnit /\ [][NextTextboxUnit]_vars

(* The binary search of cursor_at, one iteration of its loop at a time;    *)
(* the loop runs on while it has not returned                              *)
SpecCursorAt == InitCursorAt /\ [][CursorAtStep]_vars

SpecCursorAtLive == InitCursorAt /\ [][CursorAtStep]_vars /\ WF_vars(CursorAtStep)

(* Radios are constructed and clicked *)
NextRadio == RadioInit \/ RadioClick

SpecRadio == Init /\ [][NextRadio]_vars

(* the passes on trees with and without a layout that has no children *)
InitEmptyLayout ==
    /\ root \in LayoutTrees \cup EmptyLayoutTrees
    /\ InitDialog /\ InitNoTextbox /\ InitNoSearch /\ InitNoObject

SpecEmptyLayout == InitEmptyLayout /\ [][NextLayout]_vars

(* assignments to the attributes of one widget object *)
SpecSetattr == InitSetattr /\ [][SetAttr]_vars

(* the construction of one widget object *)
InitConstruct ==
    root = TextboxDialog /\ InitDialog /\ InitNoTextbox /\ InitNoSearch /\ InitNoObject

SpecConstruct == InitConstruct /\ [][Construct]_vars

----------------------------------------------------------------------------
(* Definitions used to state the properties *)

(* the element with the given widget id *)
WidgetOf(w) ==
    LET ws == widgets(root)
    IN  ws[CHOOSE i \in 1..Len(ws) : ws[i].id = w]

(* the widgets whose rect contains the point *)
WidgetsUnder(pos) == {w \in WidgetIds : collidepoint(WidgetOf(w).rect, pos)}

(* the positions of a method in the calls of the last handler *)
CallsOf(cs, method) == {i \in 1..Len(cs) : cs[i].method = method}

IsTab(ev) == ev.type = "KEYDOWN" /\ ev.key = "K_TAB" /\ "KMOD_ALT" \notin ev.mod

IsShiftTab(ev) == IsTab(ev) /\ "KMOD_SHIFT" \in ev.mod

(* the focus order: the widgets in depth-first order that are neither      *)
(* Labels nor disabled                                                     *)
FocusOrder ==
    LET ws == widgets(root)
        keep == SelectSeq(ws, LAMBDA e : e.cls # "Label" /\ ~wstate[e.id].disabled)
    IN  [i \in 1..Len(keep) |-> keep[i].id]

(* the linear layouts of a tree, the tree itself included *)
RECURSIVE LinearLayoutsIn(_)
LinearLayoutsIn(e) ==
    IF e.kind = "Widget" THEN {}
    ELSE IF e.kind = "GridLayout"
    THEN UNION {LinearLayoutsIn(Flatten(e.rows)[i]) : i \in 1..Len(Flatten(e.rows))}
    ELSE {e} \cup UNION {LinearLayoutsIn(e.elements[i]) : i \in 1..Len(e.elements)}

(* the distance from the trailing edge of child i to the leading edge of   *)
(* child i + 1 of a linear layout                                          *)
Gap(layout, i) ==
    LET a == layout.elements[i].rect
        b == layout.elements[i + 1].rect
    IN  IF IsVertical(layout) THEN b.top - (a.top + a.height)
        ELSE b.left - (a.left + a.width)

TrailingMargin(layout, i) ==
    IF IsVertical(layout) THEN margin_bottom(layout.elements[i])
    ELSE margin_right(layout.elements[i])

LeadingMargin(layout, i) ==
    IF IsVertical(layout) THEN margin_top(layout.elements[i])
    ELSE margin_left(layout.elements[i])

----------------------------------------------------------------------------
(* Properties *)

(* C1: under Tab / Shift+Tab key-downs, pointer-downs and pointer-ups, a   *)
(* widget that is a Label or is disabled when the event arrives is never   *)
(* made the focused widget and never gets focused = true.                  *)
C1_LabelOrDisabledNeverFocused ==
    [][\A w \in WidgetIds :
        (\/ wstate'[w].focused /\ ~wstate[w].focused
         \/ focused_widget' = w /\ focused_widget # w)
        => (ClsOf(w) # "Label" /\ ~wstate[w].disabled)]_vars

(* C2: a pointer-down followed by a pointer-up on a disabled Button calls  *)
(* no click handler and leaves the focused widget and every focused flag   *)
(* as they were before the two events.                                     *)
C2_DisabledButtonClickChangesNoFocus ==
    (/\ click_snapshot.phase = "up"
     /\ click_snapshot.target # None
     /\ click_snapshot.target \in WidgetsUnder(event.pos)
     /\ ClsOf(click_snapshot.target) = "Button"
     /\ wstate[click_snapshot.target].disabled)
    => (/\ CallsOf(calls, "click_handler") = {}
        /\ focused_widget = click_snapshot.focused_widget
        /\ FocusedSet(wstate) = click_snapshot.focused)

(* C3: with F the focus order, a Tab key-down while F[i] is focused moves  *)
(* the focus to F[(i+1) mod |F|] and Shift+Tab to F[(i-1) mod |F|]; with   *)
(* no focused widget Tab focuses the first of F and Shift+Tab the last.    *)
(* (Tab and Shift+Tab are the key-downs without the Alt modifier.)         *)
C3_TabFollowsFocusOrder ==
    [][(IsTab(event') /\ Len(FocusOrder) > 0) =>
        LET F == FocusOrder
            n == Len(F)
            shift == IsShiftTab(event')
        IN  /\ focused_widget = None =>
                /\ focused_widget' = (IF shift THEN F[n] ELSE F[1])
                /\ wstate'[focused_widget'].focused
            /\ \A i \in 1..n : F[i] = focused_widget =>
                LET j == IF shift THEN ((i + n - 2) % n) + 1 ELSE (i % n) + 1
                IN  /\ focused_widget' = F[j]
                    /\ wstate'[F[j]].focused
                    /\ (j # i => ~wstate'[F[i]].focused)]_vars

(* C3 witness: a Tab on the last of three or more focusable widgets has    *)
(* moved the focus to the first                                            *)
C3_Witness ==
    /\ IsTab(event) /\ ~IsShiftTab(event) /\ exc = "None"
    /\ Len(FocusOrder) >= 3
    /\ prev_focused_widget = FocusOrder[Len(FocusOrder)]
    /\ focused_widget = FocusOrder[1]

(* C4: a pointer-up focuses a widget w and dispatches exactly one click to *)
(* w at the release position if and only if the release point is inside w, *)
(* w is the recorded mouse-down target and w is not disabled; otherwise it *)
(* dispatches no click and changes no focus state.                         *)
C4_PointerUpClicksSameEnabledWidget ==
    [][event'.type = "MOUSEBUTTONUP" =>
        LET hit == {w \in WidgetsUnder(event'.pos) :
                        w = mouse_down_widget /\ ~wstate[w].disabled}
        IN  IF hit # {}
            THEN \E w \in hit :
                    /\ focused_widget' = w
                    /\ wstate'[w].focused
                    /\ Cardinality(CallsOf(calls', "click")) = 1
                    /\ \A i \in CallsOf(calls', "click") :
                            calls'[i].widget = w /\ calls'[i].pos = event'.pos
            ELSE /\ CallsOf(calls', "click") = {}
                 /\ focused_widget' = focused_widget
                 /\ FocusedSet(wstate') = FocusedSet(wstate)]_vars

(* C4 witness: a pointer-up has clicked and focused the widget under it,   *)
(* which did not have the focus before                                     *)
C4_Witness ==
    /\ event.type = "MOUSEBUTTONUP"
    /\ focused_widget # None
    /\ prev_focused_widget # focused_widget
    /\ wstate[focused_widget].focused
    /\ \E i \in CallsOf(calls, "click") :
            calls[i].widget = focused_widget /\ calls[i].pos = event.pos

(* C5: the widgets with hovering = true are exactly the hovered widget,    *)
(* which after a pointer motion is the widget under the pointer; when the  *)
(* hover target changes the old target is sent mouse_out and the new one   *)
(* mouse_in, and nothing is sent when it does not change.                  *)
C5_HoverFollowsPointer ==
    [][/\ HoveringSet(wstate') =
            (IF hovered_widget' = None THEN {} ELSE {hovered_widget'})
       /\ event'.type = "MOUSEMOTION" =>
            /\ HoveringSet(wstate') = WidgetsUnder(event'.pos)
            /\ calls' =
                (IF hovered_widget' = hovered_widget THEN <<>>
                 ELSE (IF hovered_widget = None THEN <<>>
                       ELSE <<Call("mouse_out", hovered_widget, NO_POSITION)>>)
                      \o (IF hovered_widget' = None THEN <<>>
                          ELSE <<Call("mouse_in", hovered_widget', NO_POSITION)>>))]_vars

(* C5 witness: the pointer has moved from one widget to another *)
C5_Witness ==
    /\ event.type = "MOUSEMOTION"
    /\ Len(calls) = 2
    /\ calls[1].method = "mouse_out" /\ calls[2].method = "mouse_in"
    /\ calls[1].widget # calls[2].widget
    /\ HoveringSet(wstate) = {calls[2].widget}

(* C6: a key-down handed to a widget's key handler goes to one widget, the *)
(* one that has focused = true and is not disabled, and to none when no    *)
(* widget has focused = true.                                              *)
C6_KeyDownOnlyToFocusedWidget ==
    event.type = "KEYDOWN" =>
        /\ Cardinality(CallsOf(calls, "key_down")) <= 1
        /\ \A i \in CallsOf(calls, "key_down") :
                /\ wstate[calls[i].widget].focused
                /\ ~wstate[calls[i].widget].disabled

(* C7: the measured width (height) of a HorizontalLayout (VerticalLayout)  *)
(* is the sum of the children's measured extents plus, for every adjacent  *)
(* pair, the larger of the facing margins; the cross extent is the largest *)
(* cross extent of the children.                                           *)
C7_LinearMinimumSize ==
    (pc = "measured" /\ root.kind \in {"HorizontalLayout", "VerticalLayout"}) =>
        LET n == Len(root.elements)
            along(r) == IF IsVertical(root) THEN r.height ELSE r.width
            cross(r) == IF IsVertical(root) THEN r.width ELSE r.height
        IN  /\ along(root.rect) =
                SumSeq([i \in 1..n |-> along(root.elements[i].rect)])
                + SumSeq([i \in 1..(n - 1) |->
                            Max(TrailingMargin(root, i), LeadingMargin(root, i + 1))])
            /\ cross(root.rect) = MaxSeq([i \in 1..n |-> cross(root.elements[i].rect)])

(* C8: after measure, grow and position the distance between two adjacent  *)
(* children of a HorizontalLayout or VerticalLayout is the larger of the   *)
(* first one's trailing and the second one's leading margin.               *)
C8_GapIsLargerMargin ==
    pc = "positioned" =>
        \A layout \in LinearLayoutsIn(root) :
            \A i \in 1..(Len(layout.elements) - 1) :
                Gap(layout, i) = Max(TrailingMargin(layout, i), LeadingMargin(layout, i + 1))

(* C8 witness: a positioned layout of three children in which two facing   *)
(* margins are both positive, so that their maximum is not their sum       *)
C8_Witness ==
    /\ pc = "positioned"
    /\ root.kind \in {"HorizontalLayout", "VerticalLayout"}
    /\ Len(root.elements) >= 3
    /\ \E i \in 1..(Len(root.elements) - 1) :
            /\ TrailingMargin(root, i) > 0
            /\ LeadingMargin(root, i + 1) > 0
            /\ Gap(root, i) = TrailingMargin(root, i)

(* C9: measuring a GridLayout with rows of unequal length never raises;    *)
(* a column is as wide as the widest cell the rows have in it and a row as *)
(* tall as its tallest cell.                                               *)
C9_RaggedGridMeasures ==
    (/\ root.kind = "GridLayout"
     /\ \E r \in 1..Len(root.rows) : Len(root.rows[r]) > 0) =>
        /\ pc = "constructed" => exc = "None"
        /\ pc = "measured" =>
            /\ \A c \in 1..root.column_count :
                    root.column_widths[c] =
                        LET has == {r \in 1..Len(root.rows) : c <= Len(root.rows[r])}
                        IN  CHOOSE m \in {root.rows[r][c].rect.width : r \in has} :
                                \A r \in has : root.rows[r][c].rect.width <= m
            /\ \A r \in 1..Len(root.rows) : Len(root.rows[r]) > 0 =>
                    root.row_heights[r] =
                        MaxSeq([c \in 1..Len(root.rows[r]) |-> root.rows[r][c].rect.height])

(* C10: for a measured GridLayout the grow and position passes finish      *)
(* without error and give every present cell the width of its column, the  *)
(* height of its row and the top left corner of its row and column.        *)
C10_GridGrowAndPosition ==
    (root.kind = "GridLayout" /\ pc \in {"measured", "justified", "positioned"}) =>
        /\ exc = "None"
        /\ pc = "positioned" =>
            \A r \in 1..Len(root.rows) : \A c \in 1..Len(root.rows[r]) :
                /\ root.rows[r][c].rect.width = root.column_widths[c]
                /\ root.rows[r][c].rect.height = root.row_heights[r]
                /\ root.rows[r][c].rect.left =
                        root.rect.left + SumSeq(SubSeq(root.column_widths, 1, c - 1))
                            + SumSeq(SubSeq(root.column_margins, 2, c))
                /\ root.rows[r][c].rect.top =
                        root.rect.top + SumSeq(SubSeq(root.row_heights, 1, r - 1))
                            + SumSeq(SubSeq(root.row_margins, 2, r))

(* the Boxes of every element of a tree, in pre-order *)
RECURSIVE Boxes(_)
BoxesOfList(es) ==
    [i \in 1..Len(es) |-> Boxes(es[i])]

Boxes(e) ==
    IF e.kind = "Widget" THEN <<e.rect>>
    ELSE IF e.kind = "GridLayout" THEN <<e.rect, BoxesOfList(Flatten(e.rows))>>
    ELSE <<e.rect, BoxesOfList(e.elements)>>

(* C11: running measure, grow and position again on a tree that was laid   *)
(* out and not changed since completes and leaves every element's Box      *)
(* (left, top, width, height) identical to the one of the first run.       *)
C11_RelayoutIsIdempotent ==
    [][(pc = "positioned" /\ exc = "None")
        => (exc' = "None" /\ Boxes(root') = Boxes(root))]_vars

(* C12: measuring VerticalLayout(Label("A", height=20, width=50),          *)
(* Label("B", height=30, width=40)), both labels with the default margin   *)
(* 10 and no other option set, returns a minimum Box of width 50 and       *)
(* height 60.                                                              *)
C12_ScenarioMinimumBox ==
    (/\ pc = "measured"
     /\ root.elements[1].width = 50 /\ root.elements[1].height = 20
     /\ root.elements[2].width = 40 /\ root.elements[2].height = 30)
    => (root.rect.width = 50 /\ root.rect.height = 60)

(* the members of a group that are selected *)
SelectedMembers(group) ==
    {r \in Radio_members(Radio_groups, group) : radios[r].selected}

(* C13: for every radio group, after any sequence of Radio.click on Radios *)
(* of any groups, at most one member of the group is selected, and if some *)
(* member was ever selected, the selected one is exactly the member that   *)
(* was selected most recently.                                             *)
C13_RadioExclusive ==
    \A group \in DOMAIN Radio_groups :
        /\ Cardinality(SelectedMembers(group)) <= 1
        /\ last_selected[group] # None
            => SelectedMembers(group) = {last_selected[group]}

(* two Radios of one group were clicked, and a Radio of another group too *)
C13_Witness ==
    \E group \in DOMAIN Radio_groups :
        /\ Cardinality(Radio_members(Radio_groups, group) \cap ever_selected) >= 2
        /\ ever_selected \ Radio_members(Radio_groups, group) # {}

(* C14: starting from a Textbox with cursor position 0, after any sequence *)
(* of key-downs (Left, Right, Home, End, Backspace, Delete, with or        *)
(* without the word modifier, and character input) and pointer clicks, the *)
(* cursor position p satisfies 0 <= p <= len(text).                        *)
C14_CursorInRange ==
    /\ 0 <= textbox.cursor_position
    /\ textbox.cursor_position <= Len(textbox.text)

(* K_RIGHT was pressed with the cursor at the end of a text that fills the *)
(* bound, after the cursor was assigned                                    *)
C14_Witness ==
    /\ key_down_event.type = "KEYDOWN" /\ key_down_event.key = "K_RIGHT"
    /\ key_down_return = "False"
    /\ textbox.cursor_in_dict
    /\ Len(textbox.text) = MaxText
    /\ textbox.cursor_position = Len(textbox.text)

(* the characters of the model that are printable *)
Printable == {"a", " "}

(* C15: when an enabled Textbox holds the focus in a Dialog, a key-down    *)
(* that carries a printable character c (the space included), no Ctrl or   *)
(* Alt held, changes the text from s to s[:p] + c + s[p:] and the cursor   *)
(* position from p to p + 1.                                               *)
C15_PrintableInserted ==
    [][(/\ pc = "positioned"
        /\ event'.type = "KEYDOWN"
        /\ unicode(event') \in Printable
        /\ event'.mod \cap {"KMOD_CTRL", "KMOD_ALT"} = {}
        /\ focused_widget # None
        /\ ClsOf(focused_widget) = "Textbox"
        /\ ~wstate[focused_widget].disabled)
       => (/\ textbox'.text =
                SubSeq(textbox.text, 1, textbox.cursor_position) \o <<unicode(event')>>
                    \o SubSeq(textbox.text, textbox.cursor_position + 1, Len(textbox.text))
           /\ textbox'.cursor_position = textbox.cursor_position + 1)]_vars

(* the word-boundary rule: the previous word boundary of p skips the       *)
(* whitespace before p and is the position after the last space before     *)
(* that, else 0; the next word boundary skips the whitespace after p and   *)
(* is the position of the next space, else the end of the text             *)
PreviousWordBoundary(s, p) ==
    LET p1 == CHOOSE i \in 0..p :
                /\ \A j \in (i + 1)..p : isspace(s[j])
                /\ i = 0 \/ ~isspace(s[i])
        spaces == {j \in 1..p1 : s[j] = " "}
    IN  IF spaces = {} THEN 0 ELSE CHOOSE j \in spaces : \A k \in spaces : k <= j

NextWordBoundary(s, p) ==
    LET p1 == CHOOSE i \in p..Len(s) :
                /\ \A j \in (p + 1)..i : isspace(s[j])
                /\ i = Len(s) \/ ~isspace(s[i + 1])
        spaces == {j \in p1..(Len(s) - 1) : s[j + 1] = " "}
    IN  IF spaces = {} THEN Len(s) ELSE CHOOSE j \in spaces : \A k \in spaces : j <= k

(* C16: Backspace with p > 0 removes s[p-1] and sets the cursor to p-1,    *)
(* or with the word modifier removes s[q:p] and sets the cursor to q, the  *)
(* previous word boundary of p; Delete with p < len(s) removes s[p], or    *)
(* with the word modifier s[p:q'], q' the next word boundary of p, and     *)
(* leaves the cursor at p.  "ab cd" with cursor 5 and Ctrl+Backspace       *)
(* becomes "ab " with cursor 3.                                            *)
C16_BackspaceDelete ==
    [][LET s == textbox.text
           p == textbox.cursor_position
           ev == key_down_event'
           q == IF "KMOD_CTRL" \in ev.mod THEN PreviousWordBoundary(s, p) ELSE p - 1
           q2 == IF "KMOD_CTRL" \in ev.mod THEN NextWordBoundary(s, p) ELSE p + 1
       IN  /\ (ev.type = "KEYDOWN" /\ ev.key = "K_BACKSPACE" /\ p > 0)
                => /\ textbox'.text = SubSeq(s, 1, q) \o SubSeq(s, p + 1, Len(s))
                   /\ textbox'.cursor_position = q
           /\ (ev.type = "KEYDOWN" /\ ev.key = "K_DELETE" /\ p < Len(s))
                => /\ textbox'.text = SubSeq(s, 1, p) \o SubSeq(s, q2 + 1, Len(s))
                   /\ textbox'.cursor_position = p
           /\ (/\ ev.type = "KEYDOWN" /\ ev.key = "K_BACKSPACE" /\ "KMOD_CTRL" \in ev.mod
               /\ s = ScenarioText /\ p = 5)
                => /\ textbox'.text = <<"a", "b", " ">>
                   /\ textbox'.cursor_position = 3]_vars

(* Ctrl+Backspace left "ab " with the cursor at 3 *)
C16_Witness ==
    /\ key_down_event.type = "KEYDOWN" /\ key_down_event.key = "K_BACKSPACE"
    /\ "KMOD_CTRL" \in key_down_event.mod
    /\ key_down_return = "True"
    /\ textbox.text = <<"a", "b", " ">>
    /\ textbox.cursor_position = 3

(* C17: Textbox.key_down returns a true value if and only if the call      *)
(* changed the cursor position or the text; a navigation or deletion key   *)
(* pressed at a text boundary changes nothing and returns no true value.   *)
C17_ReturnsTrueIffChanged ==
    [][key_down_event'.type = "KEYDOWN"
       => /\ (key_down_return' = "True") <=> (textbox'.text # textbox.text
                \/ textbox'.cursor_position # textbox.cursor_position)
          /\ (/\ key_down_event'.key \in {"K_LEFT", "K_BACKSPACE", "K_HOME"}
              /\ textbox.cursor_position = 0)
               => /\ key_down_return' # "True"
                  /\ textbox'.text = textbox.text
                  /\ textbox'.cursor_position = textbox.cursor_position
          /\ (/\ key_down_event'.key \in {"K_RIGHT", "K_DELETE", "K_END"}
              /\ textbox.cursor_position = Len(textbox.text))
               => /\ key_down_return' # "True"
                  /\ textbox'.text = textbox.text
                  /\ textbox'.cursor_position = textbox.cursor_position]_vars

(* K_HOME was pressed with the cursor at 0 in a text that is not empty, *)
(* after the cursor had been moved                                      *)
C17_Witness ==
    /\ key_down_event.type = "KEYDOWN" /\ key_down_event.key = "K_HOME"
    /\ key_down_return = "False"
    /\ textbox.cursor_in_dict
    /\ textbox.cursor_position = 0
    /\ Len(textbox.text) > 0

(* the distance of cursor index i from the x searched for *)
Distance(i) ==
    IF cursor_xs[i + 1] >= click_x THEN cursor_xs[i + 1] - click_x
    ELSE click_x - cursor_xs[i + 1]

(* C18: for every text, every non-decreasing prefix-width function and     *)
(* every click x, the index cursor_at returns minimises |x_i - click x|    *)
(* over all indices 0..len(text).                                          *)
C18_CursorAtIsNearest ==
    search.returned
    => \A i \in 0..(Len(cursor_xs) - 1) : Distance(search.cursor) <= Distance(i)

(* C19: for every text (the empty one included), every non-decreasing      *)
(* prefix-width function and every click x (left of the first and right of *)
(* the last cursor position included), the binary search of cursor_at      *)
(* terminates and returns an index in [0, len(text)].                      *)
C19_CursorAtTerminatesInRange ==
    /\ <>search.returned
    /\ [](search.returned => search.cursor \in 0..(Len(cursor_xs) - 1))

(* the search returned for a click left of the first cursor position of a  *)
(* text that fills the bound, after more than one probe                    *)
C19_Witness ==
    /\ search.returned
    /\ Len(cursor_xs) = MaxText + 1
    /\ click_x < cursor_xs[1]
    /\ search.cursor = 0


(* the values of a widget that a reader of its attributes observes: the    *)
(* sides of margin and padding, the status bits, the text                  *)
Observables == MarginSides \cup PaddingSides \cup StatusBits \cup {"text"}

(* C20: an assignment that changes an observable value of the widget (a    *)
(* side of margin or padding, disabled, hovering, focused, the text)       *)
(* leaves the widget with dirty = True, whatever its class; an assignment  *)
(* to dirty stores the assigned value and changes nothing else             *)
C20_ChangeSetsDirty ==
    [][/\ (\E varname \in Observables : getattr(object', varname) # getattr(object, varname))
            => getattr(object', "dirty") = TRUE
       /\ assignment'.varname = "dirty"
            => object' = [object EXCEPT !.dict = Object_setattr(@, "dirty", assignment'.value)]]_vars


(* the four sides that a margin or a padding stands for *)
SidesOf(varname) == IF varname = "margin" THEN MarginSides ELSE PaddingSides

(* C23: after a number m is assigned to margin (to padding), each of the   *)
(* four sides of the margin (of the padding) reads m, whatever was         *)
(* assigned before; a side never set reads the number margin / padding is  *)
C23_ScalarSetsAllSides ==
    [][/\ (assignment'.varname \in {"margin", "padding"} /\ ~IsTuple(assignment'.value))
            => \A side \in SidesOf(assignment'.varname) :
                    getattr(object', side) = assignment'.value
       /\ \A side \in MarginSides \cup PaddingSides :
            side \notin DOMAIN object'.dict
                => /\ ~IsTuple(getattr(object', side))
                   /\ getattr(object', side) =
                        Object_getattr(object', IF side \in MarginSides THEN "margin"
                                                ELSE "padding")]_vars

(* C24: an assignment to margin or padding of a value that has not 1, 2 or *)
(* 4 components raises and leaves the widget as it was; a value of 1, 2 or *)
(* 4 components is accepted                                                *)
C24_MalformedTupleRejected ==
    [][assignment'.varname \in {"margin", "padding"}
        => IF Len(assignment'.value.items) \in {1, 2, 4}
           THEN exc' = "None"
           ELSE exc' # "None" /\ object' = object]_vars


(* C26: a widget constructed with an option that its kind does not know    *)
(* is not constructed: the option is never stored on the widget (nor on    *)
(* the Label a Radio holds)                                                *)
C26_UnknownOptionRejected ==
    \A varname \in UnrecognisedOptions :
        varname \notin DOMAIN object.dict /\ varname \notin DOMAIN object.label


(* the tree holds a HorizontalLayout, a VerticalLayout or a Dialog that    *)
(* has no children, at any depth                                           *)
HasEmptyLinear(e) == \E layout \in LinearLayoutsIn(e) : Len(layout.elements) = 0

(* C25: measuring a tree that holds a HorizontalLayout or VerticalLayout   *)
(* without children (at any depth, in a GridLayout cell, or the Dialog     *)
(* itself) fails with an error in the measure pass: the step ends with an  *)
(* exception and no grow or position step is taken                         *)
C25_EmptyLayoutFailsMeasure ==
    [][HasEmptyLinear(root) => exc' # "None" /\ pc' = "constructed"]_vars

C25_Witness ==
    /\ root.kind = "Dialog" /\ Len(root.elements) > 0
    /\ root.elements[1].kind = "GridLayout"
    /\ HasEmptyLinear(root) /\ exc = "Exception"


(* the children of a layout: its elements, or the cells of its rows *)
ChildrenOf(e) == IF e.kind = "GridLayout" THEN Flatten(e.rows) ELSE e.elements

(* the layouts of a tree, the tree itself included *)
RECURSIVE LayoutsIn(_)
LayoutsIn(e) ==
    IF e.kind = "Widget" THEN {}
    ELSE {e} \cup UNION {LayoutsIn(ChildrenOf(e)[i]) : i \in 1..Len(ChildrenOf(e))}

(* rect a lies inside rect b *)
Inside(a, b) ==
    /\ b.left <= a.left /\ a.left + a.width <= b.left + b.width
    /\ b.top <= a.top /\ a.top + a.height <= b.top + b.height

(* C30: after measure, grow and position the rect of every child lies      *)
(* inside the rect of its container, for every layout of the tree          *)
C30_ChildrenInsideParent ==
    pc = "positioned" =>
        \A layout \in LayoutsIn(root) :
            \A i \in 1..Len(ChildrenOf(layout)) : Inside(ChildrenOf(layout)[i].rect, layout.rect)

-----------------------------------------------------------------------------
(* C27: an event whose type is not key-down, pointer-move, pointer-down,   *)
(* pointer-up or quit is ignored: dispatching it raises no error and       *)
(* leaves the status bits of every widget, the focused, hovered and        *)
(* mouse-down widget and the run flag as they were.                        *)
C27_OtherEventsIgnored ==
    [][event'.type \in OtherTypes => exc' = "None" /\ UNCHANGED dialog_vars]_vars

(* C27 for the types of the handler table only *)
C27_NoopEventsIgnored ==
    [][event'.type \in OtherTypes \cap NoopTypes => exc' = "None" /\ UNCHANGED dialog_vars]_vars

C27_Witness ==
    /\ event.type \in OtherTypes \cap NoopTypes
    /\ focused_widget # None /\ hovered_widget # None /\ mouse_down_widget # None
    /\ \E w \in WidgetIds : wstate[w].focused /\ wstate[w].dirty

-----------------------------------------------------------------------------
(* C28: under any interleaving of Tab / Shift+Tab key-downs, pointer-downs *)
(* and pointer-ups, at most one widget has focused = TRUE.                 *)
C28_AtMostOneFocused == Cardinality(FocusedSet(wstate)) <= 1

(* C29: the focused-widget reference of the Dialog and the focused flags   *)
(* agree: the reference is None exactly when no widget has focused = TRUE, *)
(* and otherwise the widget it refers to has focused = TRUE.               *)
C29_ReferenceAgreesWithFlags ==
    /\ focused_widget = None <=> FocusedSet(wstate) = {}
    /\ focused_widget # None => wstate[focused_widget].focused

-----------------------------------------------------------------------------
RectOf(w) ==
    LET ws == widgets(root)
    IN  ws[CHOOSE i \in 1..Len(ws) : ws[i].id = w].rect

(* C21: at the end of every iteration of the loop, every widget that was   *)
(* dirty after the events were processed has been painted exactly once and *)
(* no widget is dirty; display.update was called exactly once, with the    *)
(* rects of the painted widgets, when at least one widget was dirty, and   *)
(* not at all when none was.                                               *)
C21_DirtyWidgetsRepaintedOnce ==
    loop.pos \in {"while", "exited"} /\ loop.ends > 0 =>
        /\ DirtySet(wstate) = {}
        /\ Len(paint.painted) = Cardinality(paint.dirty)
        /\ {paint.painted[i] : i \in DOMAIN paint.painted} = paint.dirty
        /\ paint.updates =
                IF paint.dirty = {} THEN <<>>
                ELSE <<[i \in DOMAIN paint.painted |-> RectOf(paint.painted[i])]>>

(* an iteration after the first has ended in which some widgets, not all,  *)
(* were dirty                                                              *)
C21_Witness ==
    /\ loop.pos = "while" /\ loop.ends > 1
    /\ paint.dirty # {} /\ paint.dirty # WidgetIds
    /\ Len(paint.updates) = 1

(* C22: once a handler has called close(), _run_loop is False and stays    *)
(* False; the loop dispatches the remaining events of the batch, runs      *)
(* loop_end() and repaints the dirty widgets, and then exits without       *)
(* another call of pygame.event.get().                                     *)
C22_CloseCompletesIteration ==
    /\ [][~run_loop => ~run_loop' /\ loop'.polls = loop.polls]_vars
    /\ (~run_loop /\ loop.pos = "events") ~> (loop.pos = "exited")
    /\ [](loop.pos = "exited" =>
            loop.batch = <<>> /\ loop.ends = loop.polls /\ DirtySet(wstate) = {})

(* Escape or quit came first in a batch, and the Tab after it moved the    *)
(* focus                                                                   *)
C22_Witness ==
    /\ ~run_loop /\ loop.pos = "events" /\ loop.batch = <<>>
    /\ event.key = "K_TAB" /\ focused_widget # prev_focused_widget

-----------------------------------------------------------------------------
(* the value assigned last equals the value the attribute read before the  *)
(* assignment: a side reads a number, enabled reads the opposite of        *)
(* disabled                                                                *)
AssignedValueRead ==
    LET varname == assignment'.varname
        value == assignment'.value
    IN  IF varname \in MarginSides \cup PaddingSides THEN getattr(object, varname) = Scalar(value)
        ELSE IF varname = "enabled" THEN getattr(object, "disabled") = ~value
        ELSE getattr(object, varname) = value

(* C31: assigning to an attribute of a widget a value equal to the value   *)
(* the attribute reads, whether that value was assigned earlier or is the  *)
(* default of the widget, does not change the dirty flag of the widget.    *)
C31_EqualValueKeepsDirty ==
    [][assignment'.count # assignment.count /\ exc' = "None" /\ AssignedValueRead
            => getattr(object', "dirty") = getattr(object, "dirty")]_vars

(* C31 for a value that was assigned earlier: the attribute is in the      *)
(* __dict__ of the widget                                                  *)
C31_StoredValueKeepsDirty ==
    [][(/\ assignment'.count # assignment.count /\ exc' = "None" /\ AssignedValueRead
        /\ assignment'.varname \in DOMAIN object.dict)
            => getattr(object', "dirty") = getattr(object, "dirty")]_vars

-----------------------------------------------------------------------------
(* the event dispatched by the step is a Tab or a Shift+Tab key-down *)
TabKeyDown == event'.type = "KEYDOWN" /\ event'.key = "K_TAB" /\ "KMOD_ALT" \notin event'.mod

(* C32: a Tab or Shift+Tab key-down on a Dialog in which no widget is      *)
(* focusable (every widget is a Label or disabled), with or without a      *)
(* focused widget, raises no error and gives the focus to no Label and to  *)
(* no disabled widget.                                                     *)
C32_TabWithNothingFocusable ==
    [][TabKeyDown /\ focusable_widgets(root) = <<>>
            => /\ exc' = "None"
               /\ \A w \in FocusedSet(wstate') \ FocusedSet(wstate) :
                    ClsOf(w) # "Label" /\ ~wstate'[w].disabled]_vars
====
